---- MODULE Spec2Model ----
(***************************************************************************)
(* Model of the portfolio ratio engine, computeRatioSections, of the       *)
(* personal finance dashboard (frontend/app/src/lib/ratios.ts, kept here   *)
(* as src/unnamed/part_006).                                               *)
(*                                                                         *)
(* Numbers.  A JavaScript number is a record [k, n, d]: k = "fin" is the   *)
(* rational n/d in lowest terms (d > 0), k = "nan" is NaN and k = "inf" is *)
(* +Infinity (n = 1) or -Infinity (n = -1).  + - * / and the comparisons   *)
(* follow IEEE-754 on these values (x/0, Infinity - Infinity, comparisons  *)
(* with NaN) and are exact on the finite ones; Math.sqrt and Math.pow are  *)
(* computed in fixed point (FixScale digits, saturating at FixCap), keeping*)
(* zero, one and the order of their results.  Negative zero is not kept    *)
(* apart from zero.                                                        *)
(*                                                                         *)
(* Strings.  The em dash the engine uses for "not computable" is written   *)
(* "--" (Sentinel); toFixed, formatPercent and String build real strings.  *)
(* A ratio is [label, value, sentiment]; sentiment "undefined" is the      *)
(* absent/undefined property.  Titles and descriptions are constant text   *)
(* the engine never reads back and are left out.                           *)
(*                                                                         *)
(* State.  profile and priceHistory are the arguments of the call, pc the  *)
(* block the call is at, sections and byClass its locals, result the       *)
(* returned list.  divided logs the guarded divisions the call executed    *)
(* with their denominators, and returned logs the calls that returned, as  *)
(* [profile, priceHistory, result].  rated holds a classifier with three   *)
(* ordered inputs and the sentiments it gave them.  params is the          *)
(* searchParams of a request of the dashboard page (dashboard/page.tsx),   *)
(* pageHoldings what parseHoldings made of its h, and posted the requests  *)
(* sent to the backend, each with its JSON body.  In the page model a      *)
(* string is a sequence of one-character strings, so that split,           *)
(* lastIndexOf and slice act on positions.                                 *)
(*                                                                         *)
(* Specifications.  Spec is one call on small inputs; SpecCalls is a       *)
(* caller making several calls in a row; SpecRolling is the return-quality *)
(* block on series about one trading year long; SpecTail is one call on    *)
(* series long enough for the tail-risk block; SpecSentiment applies each  *)
(* classifier to inputs around its cut points; SpecPage is a request of    *)
(* the dashboard page, from the query string to the posts.                 *)
(***************************************************************************)
EXTENDS Integers, Sequences, FiniteSets, TLC

VARIABLES profile, priceHistory, pc, byClass, sections, result, divided, returned,
          rated, params, pageHoldings, posted

\* The state of a request of the dashboard page.
pageVars == <<params, pageHoldings, posted>>

vars == <<profile, priceHistory, pc, byClass, sections, result, divided, returned,
          rated, pageVars>>

\* ------------------------------------------------------------------ bounds

\* Longest portfolio price series drawn (data.length <= MaxLen).
MaxLen == 3

\* Most holdings drawn for a portfolio.
MaxHoldings == 2

\* Fixed-point unit of the Math.sqrt / Math.pow approximations.
FixScale == 100

\* Largest fixed-point magnitude Math.pow keeps (it saturates there).
FixCap == 40000

\* Calls of the engine one caller makes in a row.
MaxCalls == 3

\* Longest value of the query parameter h drawn character by character.
MaxQuery == 4

\* ------------------------------------------------------- program constants

TRADING_DAYS_PER_YEAR == 252

Sentinel == "--"

Undefined == "undefined"

\* ------------------------------------------------------------ JS numbers

RECURSIVE Gcd(_, _)
Gcd(a, b) == IF b = 0 THEN a ELSE Gcd(b, a % b)

AbsInt(i) == IF i < 0 THEN -i ELSE i

SgnInt(i) == IF i < 0 THEN -1 ELSE IF i = 0 THEN 0 ELSE 1

NaN == [k |-> "nan", n |-> 0, d |-> 1]

\* +Infinity (sign > 0) or -Infinity (sign < 0)
Inf(sign) == [k |-> "inf", n |-> IF sign < 0 THEN -1 ELSE 1, d |-> 1]

\* The finite number n/d (d # 0), in lowest terms.
Rat(n, d) ==
  LET g == Gcd(AbsInt(n), AbsInt(d))
      s == IF d < 0 THEN -1 ELSE 1
  IN [k |-> "fin", n |-> s * (n \div g), d |-> s * (d \div g)]

Num(i) == [k |-> "fin", n |-> i, d |-> 1]

Zero == Num(0)

One == Num(1)

Neg(x) == IF x.k = "nan" THEN NaN ELSE [x EXCEPT !.n = -x.n]

\* x + y
Add(x, y) ==
  CASE x.k = "nan" \/ y.k = "nan" -> NaN
    [] x.k = "inf" /\ y.k = "inf" -> IF x.n = y.n THEN x ELSE NaN
    [] x.k = "inf" -> x
    [] y.k = "inf" -> y
    [] OTHER -> LET g == Gcd(x.d, y.d)
                IN Rat(x.n * (y.d \div g) + y.n * (x.d \div g), (x.d \div g) * y.d)

\* x - y
Sub(x, y) == Add(x, Neg(y))

\* x * y
Mul(x, y) ==
  CASE x.k = "nan" \/ y.k = "nan" -> NaN
    [] x.k = "inf" \/ y.k = "inf" ->
         IF SgnInt(x.n) * SgnInt(y.n) = 0 THEN NaN ELSE Inf(SgnInt(x.n) * SgnInt(y.n))
    [] OTHER -> LET g1 == Gcd(AbsInt(x.n), y.d)
                    g2 == Gcd(AbsInt(y.n), x.d)
                IN Rat((x.n \div g1) * (y.n \div g2), (x.d \div g2) * (y.d \div g1))

\* x / y: a zero divisor gives NaN (0/0) or an infinity, never an exception.
Div(x, y) ==
  CASE x.k = "nan" \/ y.k = "nan" -> NaN
    [] x.k = "inf" /\ y.k = "inf" -> NaN
    [] x.k = "inf" -> Inf(x.n * (IF y.n < 0 THEN -1 ELSE 1))
    [] y.k = "inf" -> Zero
    [] y.n = 0 -> IF x.n = 0 THEN NaN ELSE Inf(x.n)
    [] OTHER -> Mul(x, Rat(y.d, y.n))

\* x < y (false when either is NaN)
Lt(x, y) ==
  CASE x.k = "nan" \/ y.k = "nan" -> FALSE
    [] x.k = "inf" /\ y.k = "inf" -> x.n < y.n
    [] x.k = "inf" -> x.n < 0
    [] y.k = "inf" -> y.n > 0
    [] OTHER -> x.n * y.d < y.n * x.d

Gt(x, y) == Lt(y, x)

\* x === y on numbers (NaN equals nothing)
StrictEq(x, y) == x.k # "nan" /\ y.k # "nan" /\ x = y

\* x !== y
StrictNe(x, y) == ~StrictEq(x, y)

Le(x, y) == Lt(x, y) \/ StrictEq(x, y)

Ge(x, y) == Le(y, x)

MathMax(x, y) ==
  IF x.k = "nan" \/ y.k = "nan" THEN NaN ELSE IF Lt(x, y) THEN y ELSE x

MathMin(x, y) ==
  IF x.k = "nan" \/ y.k = "nan" THEN NaN ELSE IF Lt(y, x) THEN y ELSE x

MathAbs(x) == IF x.k = "nan" THEN NaN ELSE [x EXCEPT !.n = AbsInt(x.n)]

\* x ** 2, x ** 3, x ** 4
Sq(x) == Mul(x, x)

\* x ** e for e = 1, 2, 3, ...
RECURSIVE Power(_, _)
Power(x, e) == IF e = 1 THEN x ELSE Mul(x, Power(x, e - 1))

\* Math.floor / Math.ceil of a finite number, as an integer.
FloorInt(x) == IF x.n >= 0 THEN x.n \div x.d ELSE -((-x.n + x.d - 1) \div x.d)

CeilInt(x) == -FloorInt(Neg(x))

\* Largest r in lo..hi with r * r <= m (lo * lo <= m).
RECURSIVE IsqrtIn(_, _, _)
IsqrtIn(m, lo, hi) ==
  IF lo >= hi THEN lo
  ELSE LET mid == (lo + hi + 1) \div 2
       IN IF mid * mid <= m THEN IsqrtIn(m, mid, hi) ELSE IsqrtIn(m, lo, mid - 1)

\* Math.sqrt: exact on 0 and on squares of fixed-point numbers, otherwise
\* rounded down to FixScale, and never to 0 for a positive argument.
MathSqrt(x) ==
  CASE x.k = "nan" -> NaN
    [] x.k = "inf" -> IF x.n > 0 THEN Inf(1) ELSE NaN
    [] x.n < 0 -> NaN
    [] x.n = 0 -> Zero
    [] OTHER -> LET r == IsqrtIn((x.n * FixScale * FixScale) \div x.d, 0, 46340)
                IN Rat(IF r = 0 THEN 1 ELSE r, FixScale)

\* Fixed-point product, saturating at FixCap.
FixMul(a, b) ==
  LET p == (a * b) \div FixScale IN IF p > FixCap THEN FixCap ELSE p

\* b ^ e in fixed point, e a natural number (square and multiply).
RECURSIVE FixPow(_, _)
FixPow(b, e) ==
  IF e = 0 THEN FixScale
  ELSE LET h == FixPow(b, e \div 2)
           s == FixMul(h, h)
       IN IF e % 2 = 1 THEN FixMul(s, b) ELSE s

\* Largest r in lo..hi with r ^ e <= b in fixed point.
RECURSIVE FixRootIn(_, _, _, _)
FixRootIn(b, e, lo, hi) ==
  IF lo >= hi THEN lo
  ELSE LET mid == (lo + hi + 1) \div 2
       IN IF FixPow(mid, e) <= b THEN FixRootIn(b, e, mid, hi)
          ELSE FixRootIn(b, e, lo, mid - 1)

\* The fixed-point value of a finite x >= 0, saturating at FixCap.
ToFix(x) ==
  IF x.n \div x.d >= FixCap \div FixScale THEN FixCap
  ELSE (x.n \div x.d) * FixScale + ((x.n % x.d) * FixScale) \div x.d

\* Math.pow(x, en / ed) for an exponent en / ed > 0: 0 and 1 are kept, and a
\* positive x never gives 0.
MathPow(x, en, ed) ==
  LET g == Gcd(en, ed)
      num == en \div g
      den == ed \div g
  IN CASE x.k = "nan" -> NaN
       [] x.k = "inf" -> IF x.n > 0 THEN Inf(1)
                         ELSE IF den # 1 THEN Inf(1)
                         ELSE IF num % 2 = 1 THEN Inf(-1) ELSE Inf(1)
       [] x.n < 0 -> IF den # 1 THEN NaN
                     ELSE LET p == Rat(FixPow(ToFix(Neg(x)), num), FixScale)
                          IN IF num % 2 = 1 THEN Neg(p) ELSE p
       [] x.n = 0 -> Zero
       [] OTHER -> LET b == ToFix(x)
                       root == IF den = 1 THEN b
                               ELSE FixRootIn(b, den, 0, IF b > FixScale THEN b ELSE FixScale)
                       p == FixPow(root, num)
                   IN Rat(IF p = 0 THEN 1 ELSE p, FixScale)

\* ------------------------------------------------------------ JS strings

RECURSIVE PadLeft(_, _)
PadLeft(s, width) == IF Len(s) >= width THEN s ELSE PadLeft("0" \o s, width)

RECURSIVE Pow10(_)
Pow10(digits) == IF digits = 0 THEN 1 ELSE 10 * Pow10(digits - 1)

\* Number.prototype.toFixed(digits): NaN and the infinities print by name,
\* a finite number is rounded half away from zero to `digits` decimals.
ToFixed(x, digits) ==
  CASE x.k = "nan" -> "NaN"
    [] x.k = "inf" -> IF x.n > 0 THEN "Infinity" ELSE "-Infinity"
    [] OTHER ->
         LET a == AbsInt(x.n)
             p == Pow10(digits)
             ip == a \div x.d
             fr == (2 * (a % x.d) * p + x.d) \div (2 * x.d)
             whole == IF fr = p THEN ip + 1 ELSE ip
             frac == IF fr = p THEN 0 ELSE fr
         IN (IF x.n < 0 THEN "-" ELSE "") \o ToString(whole)
              \o (IF digits = 0 THEN "" ELSE "." \o PadLeft(ToString(frac), digits))

\* String(n) of an integer count.
StringOf(i) == ToString(i)

formatPercent(value) == ToFixed(Mul(value, Num(100)), 1) \o "%"

RISK_FREE_RATE == Rat(4, 100)

\* ------------------------------------------------- sentiment classifiers

\* A decimal literal of the source, such as 0.10 == Dec(10, 100).
Dec(n, d) == Rat(n, d)

\* returnSentiment with the results of the two middle steps exchanged.
returnSentiment_Swapped(r) ==
  IF Ge(r, Dec(10, 100)) THEN "positive"
  ELSE IF Ge(r, Zero) THEN "slightly-negative"
  ELSE IF Ge(r, Dec(-5, 100)) THEN "neutral"
  ELSE "very-negative"

returnSentiment(r) ==
  IF Ge(r, Dec(10, 100)) THEN "positive"
  ELSE IF Ge(r, Zero) THEN "neutral"
  ELSE IF Ge(r, Dec(-5, 100)) THEN "slightly-negative"
  ELSE "very-negative"

sharpeFamily(n) ==
  IF Ge(n, Dec(15, 10)) THEN "positive"
  ELSE IF Ge(n, Dec(5, 10)) THEN "neutral"
  ELSE IF Ge(n, Zero) THEN "slightly-negative"
  ELSE "very-negative"

drawdownSentiment(dd) ==
  IF Gt(dd, Dec(-10, 100)) THEN "positive"
  ELSE IF Gt(dd, Dec(-20, 100)) THEN "neutral"
  ELSE IF Gt(dd, Dec(-35, 100)) THEN "slightly-negative"
  ELSE "very-negative"

calmarSentiment(c) ==
  IF Ge(c, Dec(75, 100)) THEN "positive"
  ELSE IF Ge(c, Dec(3, 10)) THEN "neutral"
  ELSE IF Ge(c, Zero) THEN "slightly-negative"
  ELSE "very-negative"

downsideDevSentiment(d) ==
  IF Le(d, Dec(10, 100)) THEN "positive"
  ELSE IF Le(d, Dec(20, 100)) THEN "neutral"
  ELSE IF Le(d, Dec(35, 100)) THEN "slightly-negative"
  ELSE "very-negative"

ulcerSentiment(u) ==
  IF Le(u, Num(5)) THEN "positive"
  ELSE IF Le(u, Num(15)) THEN "neutral"
  ELSE IF Le(u, Num(25)) THEN "slightly-negative"
  ELSE "very-negative"

durationSentiment(days) ==
  IF Le(days, Num(15)) THEN "positive"
  ELSE IF Le(days, Num(30)) THEN "neutral"
  ELSE IF Le(days, Num(45)) THEN "slightly-negative"
  ELSE "very-negative"

betaSentiment(b) ==
  LET abs == MathAbs(b)
  IN IF Le(abs, Dec(10, 10)) THEN "neutral"
     ELSE IF Le(abs, Dec(15, 10)) THEN "slightly-negative"
     ELSE "very-negative"

alphaSentiment(a) ==
  IF Ge(a, Dec(2, 100)) THEN "positive"
  ELSE IF Ge(a, Zero) THEN "neutral"
  ELSE IF Ge(a, Dec(-2, 100)) THEN "slightly-negative"
  ELSE "very-negative"

infoRatioSentiment(ir) ==
  IF Ge(ir, Dec(5, 10)) THEN "positive"
  ELSE IF Ge(ir, Zero) THEN "neutral"
  ELSE IF Ge(ir, Dec(-5, 10)) THEN "slightly-negative"
  ELSE "very-negative"

varSentiment(v) ==
  IF Gt(v, Dec(-1, 100)) THEN "positive"
  ELSE IF Gt(v, Dec(-2, 100)) THEN "neutral"
  ELSE IF Gt(v, Dec(-4, 100)) THEN "slightly-negative"
  ELSE "very-negative"

cvarSentiment(v) ==
  IF Gt(v, Dec(-2, 100)) THEN "positive"
  ELSE IF Gt(v, Dec(-4, 100)) THEN "neutral"
  ELSE IF Gt(v, Dec(-7, 100)) THEN "slightly-negative"
  ELSE "very-negative"

skewnessSentiment(s) ==
  IF Ge(s, Dec(5, 10)) THEN "positive"
  ELSE IF Ge(s, Dec(-5, 10)) THEN "neutral"
  ELSE IF Ge(s, Num(-1)) THEN "slightly-negative"
  ELSE "very-negative"

kurtosisSentiment(k) ==
  IF Le(k, Num(1)) THEN "positive"
  ELSE IF Le(k, Num(3)) THEN "neutral"
  ELSE IF Le(k, Num(5)) THEN "slightly-negative"
  ELSE "very-negative"

hhiSentiment(h) ==
  IF Le(h, Dec(10, 100)) THEN "positive"
  ELSE IF Le(h, Dec(18, 100)) THEN "neutral"
  ELSE IF Le(h, Dec(25, 100)) THEN "slightly-negative"
  ELSE "very-negative"

effectiveNSentiment(n) ==
  IF Ge(n, Num(10)) THEN "positive"
  ELSE IF Ge(n, Num(5)) THEN "neutral"
  ELSE IF Ge(n, Num(3)) THEN "slightly-negative"
  ELSE "very-negative"

topHoldingPctSentiment(p) ==
  IF Le(p, Dec(20, 100)) THEN "positive"
  ELSE IF Le(p, Dec(35, 100)) THEN "neutral"
  ELSE IF Le(p, Dec(50, 100)) THEN "slightly-negative"
  ELSE "very-negative"

top5PctSentiment(p) ==
  IF Le(p, Dec(50, 100)) THEN "positive"
  ELSE IF Le(p, Dec(70, 100)) THEN "neutral"
  ELSE IF Le(p, Dec(85, 100)) THEN "slightly-negative"
  ELSE "very-negative"

top10PctSentiment(p) ==
  IF Le(p, Dec(70, 100)) THEN "positive"
  ELSE IF Le(p, Dec(85, 100)) THEN "neutral"
  ELSE IF Le(p, Dec(95, 100)) THEN "slightly-negative"
  ELSE "very-negative"

volSentiment(v) ==
  IF Le(v, Dec(10, 100)) THEN "positive"
  ELSE IF Le(v, Dec(20, 100)) THEN "neutral"
  ELSE IF Le(v, Dec(35, 100)) THEN "slightly-negative"
  ELSE "very-negative"

liquiditySentiment(l) ==
  IF Ge(l, Dec(30, 100)) THEN "positive"
  ELSE IF Ge(l, Dec(15, 100)) THEN "neutral"
  ELSE IF Ge(l, Dec(5, 100)) THEN "slightly-negative"
  ELSE "very-negative"

\* ------------------------------------------------------- array helpers

\* A ratio pushed with a sentiment, and one pushed without.
Ratio(label, value, sentiment) ==
  [label |-> label, value |-> value, sentiment |-> sentiment]

Bare(label, value) == Ratio(label, value, Undefined)

\* arr.reduce((a, b) => a + b, 0)
RECURSIVE SumSeq(_)
SumSeq(arr) == IF Len(arr) = 0 THEN Zero ELSE Add(Head(arr), SumSeq(Tail(arr)))

\* arr.filter((r) => r < 0)
RECURSIVE FilterNegative(_)
FilterNegative(arr) ==
  IF arr = <<>> THEN <<>>
  ELSE (IF Lt(Head(arr), Zero) THEN <<Head(arr)>> ELSE <<>>) \o FilterNegative(Tail(arr))

\* arr.slice(0, count)
SliceTo(arr, count) == SubSeq(arr, 1, IF count < Len(arr) THEN count ELSE Len(arr))

\* data.length >= 2: the guard of every block that derives daily returns.
HasReturnSeries_OffByOne(data) == Len(data) >= 1

HasReturnSeries(data) == Len(data) >= 2

\* data.map((p) => p.valueUSD)
ValuesOf(data) == [i \in 1..Len(data) |-> data[i].valueUSD]

\* values.slice(1).map((v, i) => (v - values[i]) / values[i])
DailyReturns(values) ==
  [i \in 1..(Len(values) - 1) |-> Div(Sub(values[i + 1], values[i]), values[i])]

\* Math.pow(values[n - 1] / values[0], TRADING_DAYS_PER_YEAR / n) - 1
Cagr(values) ==
  Sub(MathPow(Div(values[Len(values)], values[1]), TRADING_DAYS_PER_YEAR, Len(values)), One)

\* Insert x into the sorted array by the comparator cmp(a, b) = a - b: x moves left
\* past every element e with e - x > 0; a NaN comparison counts as 0.
RECURSIVE InsertAsc(_, _)
InsertAsc(sorted, x) ==
  IF sorted = <<>> THEN <<x>>
  ELSE LET last == sorted[Len(sorted)]
       IN IF Gt(Sub(last, x), Zero)
          THEN InsertAsc(SubSeq(sorted, 1, Len(sorted) - 1), x) \o <<last>>
          ELSE sorted \o <<x>>

\* [...arr].sort((a, b) => a - b): a stable sort of a copy.
RECURSIVE SortAsc(_)
SortAsc(arr) ==
  IF arr = <<>> THEN <<>>
  ELSE InsertAsc(SortAsc(SubSeq(arr, 1, Len(arr) - 1)), arr[Len(arr)])

RECURSIVE InsertByValueDesc(_, _)
InsertByValueDesc(sorted, h) ==
  IF sorted = <<>> THEN <<h>>
  ELSE LET last == sorted[Len(sorted)]
       IN IF Gt(Sub(h.valueUSD, last.valueUSD), Zero)
          THEN InsertByValueDesc(SubSeq(sorted, 1, Len(sorted) - 1), h) \o <<last>>
          ELSE sorted \o <<h>>

\* [...holdings].sort((a, b) => b.valueUSD - a.valueUSD)
RECURSIVE SortByValueDesc(_)
SortByValueDesc(hs) ==
  IF hs = <<>> THEN <<>>
  ELSE InsertByValueDesc(SortByValueDesc(SubSeq(hs, 1, Len(hs) - 1)), hs[Len(hs)])

\* ------------------------------------------------------ return quality

\* null, as a value of a number-or-null variable.
Null == [k |-> "null", n |-> 0, d |-> 1]

\* values[i] for the 0-based index i: undefined outside the array, which is NaN in
\* arithmetic.
ValueAt(values, i) == IF i + 1 \in 1..Len(values) THEN values[i + 1] ELSE NaN

\* The 0-based index the rolling return over `years` years reads its base value at.
RollingIndex(values, years) == Len(values) - 1 - years * TRADING_DAYS_PER_YEAR

\* The rolling return over `years` years, or null below the threshold.
RollingReturn(values, years) ==
  IF Len(values) >= years * TRADING_DAYS_PER_YEAR
  THEN Sub(MathPow(Div(ValueAt(values, Len(values) - 1),
                       ValueAt(values, RollingIndex(values, years))), 1, years), One)
  ELSE Null

RollingRatio(label, roll) ==
  Ratio(label,
        IF roll # Null THEN formatPercent(roll) ELSE Sentinel,
        IF roll # Null THEN returnSentiment(roll) ELSE Undefined)

ReturnQualityRatios(data) ==
  LET values == ValuesOf(data)
  IN (IF HasReturnSeries(data)
      THEN <<Ratio("CAGR / Annualized return", formatPercent(Cagr(values)),
                   returnSentiment(Cagr(values)))>>
      ELSE <<Bare("CAGR / Annualized return", Sentinel)>>)
     \o <<Bare("TWR vs IRR", Sentinel)>>
     \o (IF Len(data) >= TRADING_DAYS_PER_YEAR
         THEN <<RollingRatio("Rolling 1Y return", RollingReturn(values, 1)),
                RollingRatio("Rolling 3Y return", RollingReturn(values, 3)),
                RollingRatio("Rolling 5Y return", RollingReturn(values, 5))>>
         ELSE <<Bare("Rolling 1Y return", Sentinel),
                Bare("Rolling 3Y return", Sentinel),
                Bare("Rolling 5Y return", Sentinel)>>)

\* ---------------------------------------------------- risk Sharpe misses

Mean(arr) == Div(SumSeq(arr), Num(Len(arr)))

\* reduce((s, r) => s + (r - mean) ** 2, 0)
SumSqDev(arr, mean) == SumSeq([i \in 1..Len(arr) |-> Sq(Sub(arr[i], mean))])

\* Sample variance: the sum of squares over Math.max(1, length - 1).
SampleVariance(arr) ==
  Div(SumSqDev(arr, Mean(arr)), Num(IF Len(arr) - 1 > 1 THEN Len(arr) - 1 ELSE 1))

AnnualizedVol(dailyReturns) ==
  Mul(MathSqrt(SampleVariance(dailyReturns)), MathSqrt(Num(TRADING_DAYS_PER_YEAR)))

DownsideDev(dailyReturns) ==
  LET downsideReturns == FilterNegative(dailyReturns)
      downsideVariance ==
        IF Len(downsideReturns) > 0
        THEN Div(SumSeq([i \in 1..Len(downsideReturns) |-> Mul(downsideReturns[i], downsideReturns[i])]),
                 Num(Len(downsideReturns)))
        ELSE Zero
  IN Mul(MathSqrt(downsideVariance), MathSqrt(Num(TRADING_DAYS_PER_YEAR)))

\* downsideDev >= 0 in place of downsideDev > 0.
SortinoGuard_NonNegative(values) == Ge(DownsideDev(DailyReturns(values)), Zero)

\* downsideDev > 0
SortinoGuard(values) == Gt(DownsideDev(DailyReturns(values)), Zero)

Sortino(values) ==
  LET downsideDev == DownsideDev(DailyReturns(values))
  IN IF SortinoGuard(values)
     THEN Div(Sub(Cagr(values), RISK_FREE_RATE), downsideDev)
     ELSE Zero

\* The running peak after the points 1..i: peak = Math.max(peak, values[i]).
RECURSIVE PeakAt(_, _)
PeakAt(values, i) ==
  IF i = 0 THEN values[1] ELSE MathMax(PeakAt(values, i - 1), values[i])

\* maxDD after the points 1..i: maxDD = Math.min(maxDD, values[i] / peak - 1).
RECURSIVE MaxDDAt(_, _)
MaxDDAt(values, i) ==
  IF i = 0 THEN Zero
  ELSE MathMin(MaxDDAt(values, i - 1), Sub(Div(values[i], PeakAt(values, i)), One))

\* The drawdown of the last point alone, in place of the minimum over the loop.
MaxDD_LastPoint(values) ==
  Sub(Div(values[Len(values)], PeakAt(values, Len(values))), One)

MaxDD(values) == MaxDDAt(values, Len(values))

\* maxDD !== 0
CalmarGuard(values) == StrictNe(MaxDD(values), Zero)

\* cagr / maxDD in place of cagr / Math.abs(maxDD).
Calmar_Signed(values) ==
  LET maxDD == MaxDD(values)
  IN IF CalmarGuard(values) THEN Div(Cagr(values), maxDD) ELSE Zero

Calmar(values) ==
  LET maxDD == MaxDD(values)
  IN IF CalmarGuard(values) THEN Div(Cagr(values), MathAbs(maxDD)) ELSE Zero

UlcerIndex(values) ==
  LET ulcerSum == SumSeq([i \in 1..Len(values) |->
                    Sq(Mul(Sub(Div(values[i], PeakAt(values, i)), One), Num(100)))])
  IN MathSqrt(Div(ulcerSum, Num(Len(values))))

\* The loop state [max, inDrawdown, start] after the points 1..i (start is 0-based).
RECURSIVE DurationAt(_, _)
DurationAt(values, i) ==
  IF i = 0 THEN [max |-> 0, inDrawdown |-> FALSE, start |-> 0]
  ELSE LET prev == DurationAt(values, i - 1)
           start == IF prev.inDrawdown THEN prev.start ELSE i - 1
       IN IF Lt(values[i], PeakAt(values, i))
          THEN [max |-> IF (i - 1) - start > prev.max THEN (i - 1) - start ELSE prev.max,
                inDrawdown |-> TRUE, start |-> start]
          ELSE [prev EXCEPT !.inDrawdown = FALSE]

MaxDrawdownDuration(values) == DurationAt(values, Len(values)).max

\* A guarded quotient the block evaluated, with the denominator it divided by.
Division(quotient, by) == [quotient |-> quotient, by |-> by]

\* The guarded divisions the block executes: the true branch of each conditional.
RiskDivisions(data) ==
  LET values == ValuesOf(data)
  IN IF HasReturnSeries(data)
     THEN (IF SortinoGuard(values)
           THEN {Division("sortino", DownsideDev(DailyReturns(values)))} ELSE {})
          \cup (IF CalmarGuard(values)
                THEN {Division("calmar", MathAbs(MaxDD(values)))} ELSE {})
     ELSE {}

RiskRatios(data) ==
  LET values == ValuesOf(data)
      downsideDev == DownsideDev(DailyReturns(values))
      sortino == Sortino(values)
      calmar == Calmar(values)
      maxDD == MaxDD(values)
      ulcerIndex == UlcerIndex(values)
      maxDrawdownDuration == MaxDrawdownDuration(values)
  IN IF HasReturnSeries(data)
     THEN <<Ratio("Sortino ratio", ToFixed(sortino, 2), sharpeFamily(sortino)),
            Ratio("Downside deviation", formatPercent(downsideDev), downsideDevSentiment(downsideDev)),
            Ratio("Calmar ratio", ToFixed(calmar, 2), calmarSentiment(calmar)),
            Ratio("Max drawdown", formatPercent(maxDD), drawdownSentiment(maxDD)),
            Ratio("Ulcer index", ToFixed(ulcerIndex, 2), ulcerSentiment(ulcerIndex)),
            Ratio("Max drawdown duration (days)", StringOf(maxDrawdownDuration),
                  durationSentiment(Num(maxDrawdownDuration)))>>
     ELSE <<Bare("Sortino ratio", Sentinel),
            Bare("Downside deviation", Sentinel),
            Bare("Calmar ratio", Sentinel),
            Bare("Max drawdown", Sentinel),
            Bare("Ulcer index", Sentinel),
            Bare("Max drawdown duration (days)", Sentinel)>>

\* ---------------------------------------------------- market sensitivity

\* A value that may be undefined: reading a property of an undefined one throws.
Defined(v) == [defined |-> TRUE, value |-> v]

\* priceHistory.sp500 without the ?? [] default.
Sp500Of_NoDefault(ph) ==
  IF "sp500" \in DOMAIN ph THEN Defined(ph.sp500) ELSE [defined |-> FALSE, value |-> <<>>]

\* priceHistory.sp500 ?? []
Sp500Of(ph) == IF "sp500" \in DOMAIN ph THEN Defined(ph.sp500) ELSE Defined(<<>>)

\* data.length >= 2 && sp500.length > 0 reads sp500.length once data has two points.
MarketThrows(data, sp500) == HasReturnSeries(data) /\ ~sp500.defined

\* new Map(sp500.map((p) => [p.date, p.valueUSD])).get(date): the value of the last
\* point of that date, or undefined.
SpMapHas(sp500, date) == \E j \in 1..Len(sp500) : sp500[j].date = date

SpMapGet(sp500, date) ==
  LET j == CHOOSE j \in 1..Len(sp500) :
             /\ sp500[j].date = date
             /\ \A m \in (j + 1)..Len(sp500) : sp500[m].date # date
  IN sp500[j].valueUSD

\* The aligned pairs of data[i..]: portfolio points whose date the map holds.
RECURSIVE AlignedFrom(_, _, _)
AlignedFrom(data, sp500, i) ==
  IF i > Len(data) THEN <<>>
  ELSE (IF SpMapHas(sp500, data[i].date)
        THEN <<[port |-> data[i].valueUSD, sp |-> SpMapGet(sp500, data[i].date)]>>
        ELSE <<>>) \o AlignedFrom(data, sp500, i + 1)

\* The pairs data[i], sp500[i] taken by position, in place of the lookup by date.
Aligned_ByPosition(data, sp500) ==
  [i \in 1..(IF Len(data) < Len(sp500) THEN Len(data) ELSE Len(sp500)) |->
     [port |-> data[i].valueUSD, sp |-> sp500[i].valueUSD]]

Aligned(data, sp500) == AlignedFrom(data, sp500, 1)

\* aligned.length >= 1 in place of aligned.length >= 2.
HasAlignedSeries_OffByOne(aligned) == Len(aligned) >= 1

\* aligned.length >= 2
HasAlignedSeries(aligned) == Len(aligned) >= 2

PortReturns(aligned) ==
  [i \in 1..(Len(aligned) - 1) |->
     Div(Sub(aligned[i + 1].port, aligned[i].port), aligned[i].port)]

SpReturns(aligned) ==
  [i \in 1..(Len(aligned) - 1) |->
     Div(Sub(aligned[i + 1].sp, aligned[i].sp), aligned[i].sp)]

\* Population covariance of pr and sr.
Cov(pr, sr) ==
  Div(SumSeq([i \in 1..Len(pr) |-> Mul(Sub(pr[i], Mean(pr)), Sub(sr[i], Mean(sr)))]),
      Num(Len(pr)))

\* Population variance.
PopVariance(arr) == Div(SumSqDev(arr, Mean(arr)), Num(Len(arr)))

\* varSp > 0
BetaGuard(sr) == Gt(PopVariance(sr), Zero)

Beta(pr, sr) ==
  IF BetaGuard(sr) THEN Div(Cov(pr, sr), PopVariance(sr)) ELSE Zero

AnnualizedAlpha(pr, sr) ==
  LET dailyRf == Div(RISK_FREE_RATE, Num(TRADING_DAYS_PER_YEAR))
      alpha == Sub(Sub(Mean(pr), dailyRf), Mul(Beta(pr, sr), Sub(Mean(sr), dailyRf)))
  IN Mul(alpha, Num(TRADING_DAYS_PER_YEAR))

TrackingErr(pr, sr) ==
  Mul(MathSqrt(Div(SumSeq([i \in 1..Len(pr) |-> Sq(Sub(pr[i], sr[i]))]), Num(Len(pr)))),
      MathSqrt(Num(TRADING_DAYS_PER_YEAR)))

\* trackingErr > 0
InfoRatioGuard(pr, sr) == Gt(TrackingErr(pr, sr), Zero)

InfoRatio(pr, sr) ==
  LET trackingErr == TrackingErr(pr, sr)
      activeReturn == Mul(Sub(Mean(pr), Mean(sr)), Num(TRADING_DAYS_PER_YEAR))
  IN IF InfoRatioGuard(pr, sr) THEN Div(activeReturn, trackingErr) ELSE Zero

\* varSp > 0 && varPort > 0
RSquaredGuard(pr, sr) == Gt(PopVariance(sr), Zero) /\ Gt(PopVariance(pr), Zero)

RSquared(pr, sr) ==
  IF RSquaredGuard(pr, sr)
  THEN Div(Sq(Cov(pr, sr)), Mul(PopVariance(pr), PopVariance(sr)))
  ELSE Zero

\* The sentinel pushes with the constant "neutral" of the computed branch kept.
MarketSentinels_Scored ==
  <<Bare("Beta (vs S&P 500)", Sentinel),
    Bare("Alpha (vs benchmark)", Sentinel),
    Ratio("Tracking error", Sentinel, "neutral"),
    Bare("Information ratio", Sentinel),
    Ratio("R2", Sentinel, "neutral")>>

\* The five sentinel pushes of either else branch (they differ in descriptions only).
MarketSentinels ==
  <<Bare("Beta (vs S&P 500)", Sentinel),
    Bare("Alpha (vs benchmark)", Sentinel),
    Bare("Tracking error", Sentinel),
    Bare("Information ratio", Sentinel),
    Bare("R2", Sentinel)>>

MarketDivisions(data, sp500) ==
  LET aligned == Aligned(data, sp500)
      pr == PortReturns(aligned)
      sr == SpReturns(aligned)
  IN IF HasReturnSeries(data) /\ Len(sp500) > 0 /\ HasAlignedSeries(aligned)
     THEN (IF BetaGuard(sr) THEN {Division("beta", PopVariance(sr))} ELSE {})
          \cup (IF InfoRatioGuard(pr, sr)
                THEN {Division("infoRatio", TrackingErr(pr, sr))} ELSE {})
          \cup (IF RSquaredGuard(pr, sr)
                THEN {Division("r2", Mul(PopVariance(pr), PopVariance(sr)))} ELSE {})
     ELSE {}

MarketRatios(data, sp500) ==
  LET aligned == Aligned(data, sp500)
      pr == PortReturns(aligned)
      sr == SpReturns(aligned)
  IN IF HasReturnSeries(data) /\ Len(sp500) > 0
     THEN IF HasAlignedSeries(aligned)
          THEN <<Ratio("Beta (vs S&P 500)", ToFixed(Beta(pr, sr), 2), betaSentiment(Beta(pr, sr))),
                 Ratio("Alpha (vs benchmark)", formatPercent(AnnualizedAlpha(pr, sr)),
                       alphaSentiment(AnnualizedAlpha(pr, sr))),
                 Ratio("Tracking error", formatPercent(TrackingErr(pr, sr)), "neutral"),
                 Ratio("Information ratio", ToFixed(InfoRatio(pr, sr), 2),
                       infoRatioSentiment(InfoRatio(pr, sr))),
                 Ratio("R2", ToFixed(Mul(RSquared(pr, sr), Num(100)), 1) \o "%", "neutral")>>
          ELSE MarketSentinels
     ELSE MarketSentinels

\* -------------------------------------------------------------- tail risk

\* The element counted from the top of the sorted returns, in place of the bottom.
VarAt_UpperTail(sorted, pct) ==
  LET idx == FloorInt(Mul(Num(Len(sorted)), Dec(pct, 100)))
  IN IF Len(sorted) - idx \in 1..Len(sorted) THEN sorted[Len(sorted) - idx] ELSE Zero

\* sorted[Math.floor(sorted.length * pct / 100)] ?? 0
VarAt(sorted, pct) ==
  LET idx == FloorInt(Mul(Num(Len(sorted)), Dec(pct, 100)))
  IN IF idx + 1 \in 1..Len(sorted) THEN sorted[idx + 1] ELSE Zero

CVar(sorted) ==
  LET worst5Pct == SliceTo(sorted, CeilInt(Mul(Num(Len(sorted)), Dec(5, 100))))
  IN IF Len(worst5Pct) > 0 THEN Div(SumSeq(worst5Pct), Num(Len(worst5Pct))) ELSE Zero

\* The population moments about the mean.
\* The central moment of order e: reduce((s, r) => s + (r - mean) ** e, 0) / n.
Moment(arr, e) ==
  Div(SumSeq([i \in 1..Len(arr) |-> Power(Sub(arr[i], Mean(arr)), e)]), Num(Len(arr)))

Skewness(arr) ==
  IF Gt(Moment(arr, 2), Zero) THEN Div(Moment(arr, 3), MathPow(Moment(arr, 2), 3, 2)) ELSE Zero

Kurtosis(arr) ==
  IF Gt(Moment(arr, 2), Zero) THEN Sub(Div(Moment(arr, 4), Mul(Moment(arr, 2), Moment(arr, 2))), Num(3)) ELSE Zero

TailRatios(data) ==
  LET dailyReturns == DailyReturns(ValuesOf(data))
      sorted == SortAsc(dailyReturns)
      var95 == VarAt(sorted, 5)
      var99 == VarAt(sorted, 1)
      cvar == CVar(sorted)
      skewness == Skewness(dailyReturns)
      kurtosis == Kurtosis(dailyReturns)
  IN IF HasReturnSeries(data)
     THEN <<Ratio("VaR (95%)", formatPercent(var95), varSentiment(var95)),
            Ratio("VaR (99%)", formatPercent(var99), varSentiment(var99)),
            Ratio("CVaR / Expected Shortfall", formatPercent(cvar), cvarSentiment(cvar)),
            Ratio("Skewness", ToFixed(skewness, 2), skewnessSentiment(skewness)),
            Ratio("Kurtosis", ToFixed(kurtosis, 2), kurtosisSentiment(kurtosis))>>
     ELSE <<Bare("VaR (95%)", Sentinel),
            Bare("VaR (99%)", Sentinel),
            Bare("CVaR / Expected Shortfall", Sentinel),
            Bare("Skewness", Sentinel),
            Bare("Kurtosis", Sentinel)>>

\* ---------------------------------------------------------- concentration

AssetClasses == {"stocks", "bonds", "cash", "crypto"}

\* byClass after the loop over holdings[1..i]: byClass[h.assetClass] += h.valueUSD.
RECURSIVE ByClassAt(_, _)
ByClassAt(holdings, i) ==
  IF i = 0 THEN [c \in AssetClasses |-> Zero]
  ELSE LET prev == ByClassAt(holdings, i - 1)
           h == holdings[i]
       IN [prev EXCEPT ![h.assetClass] = Add(prev[h.assetClass], h.valueUSD)]

ByClass(holdings) == ByClassAt(holdings, Len(holdings))

\* h.valueUSD / holdings.length in place of h.valueUSD / total.
Weights_PerCount(holdings, total) ==
  [i \in 1..Len(holdings) |-> Div(holdings[i].valueUSD, Num(Len(holdings)))]

Weights(holdings, total) == [i \in 1..Len(holdings) |-> Div(holdings[i].valueUSD, total)]

\* The squares summed before the division, and divided by total once.
Hhi_DividedOnce(holdings, total) ==
  Div(SumSeq([i \in 1..Len(holdings) |-> Mul(holdings[i].valueUSD, holdings[i].valueUSD)]), total)

Hhi(holdings, total) ==
  LET weights == Weights(holdings, total)
  IN SumSeq([i \in 1..Len(weights) |-> Mul(weights[i], weights[i])])

EffectiveN(holdings, total) ==
  IF Gt(Hhi(holdings, total), Zero) THEN Div(One, Hhi(holdings, total)) ELSE Zero

\* The first `count` holdings of the list as given, in place of the sorted copy.
TopSum_Unsorted(holdings, count) ==
  LET top == SliceTo(holdings, count)
  IN SumSeq([i \in 1..Len(top) |-> top[i].valueUSD])

\* sorted.slice(0, count).reduce((s, h) => s + h.valueUSD, 0)
TopSum(holdings, count) ==
  LET top == SliceTo(SortByValueDesc(holdings), count)
  IN SumSeq([i \in 1..Len(top) |-> top[i].valueUSD])

\* The first holding of the list as given, in place of the first of the sorted copy.
MaxHolding_First(holdings) ==
  IF Len(holdings) >= 1 THEN holdings[1].valueUSD ELSE Zero

\* sorted[0]?.valueUSD ?? 0
MaxHolding(holdings) ==
  LET sorted == SortByValueDesc(holdings)
  IN IF Len(sorted) >= 1 THEN sorted[1].valueUSD ELSE Zero

ConcentrationGuard(holdings, total) == Gt(total, Zero) /\ Len(holdings) > 0

ConcRatios(holdings, total) ==
  LET hhi == Hhi(holdings, total)
      effectiveN == EffectiveN(holdings, total)
      top5 == TopSum(holdings, 5)
      top10 == TopSum(holdings, 10)
      maxHolding == MaxHolding(holdings)
  IN IF ConcentrationGuard(holdings, total)
     THEN <<Ratio("HHI (concentration)", ToFixed(hhi, 4), hhiSentiment(hhi)),
            Ratio("Effective # of holdings", ToFixed(effectiveN, 1), effectiveNSentiment(effectiveN)),
            Ratio("Top holding %", formatPercent(Div(maxHolding, total)),
                  topHoldingPctSentiment(Div(maxHolding, total))),
            Ratio("Top 5 holding %", formatPercent(Div(top5, total)),
                  top5PctSentiment(Div(top5, total))),
            Ratio("Top 10 holding %", formatPercent(Div(top10, total)),
                  top10PctSentiment(Div(top10, total))),
            Bare("Sector / country concentration", Sentinel),
            Bare("Avg pairwise correlation", Sentinel)>>
     ELSE <<Bare("HHI", Sentinel),
            Bare("Effective # of holdings", Sentinel),
            Bare("Top holding %", Sentinel),
            Bare("Top 5 holding %", Sentinel),
            Bare("Top 10 holding %", Sentinel),
            Bare("Sector / country concentration", Sentinel),
            Bare("Avg pairwise correlation", Sentinel)>>

\* ------------------------------------- allocation, volatility, practical

\* total >= 0 in place of total > 0.
AllocationGuard_NonNegative(total) == Ge(total, Zero)

AllocationGuard(total) == Gt(total, Zero)

AllocRatios(classSums, total) ==
  IF AllocationGuard(total)
  THEN <<Bare("Equity %", formatPercent(Div(classSums["stocks"], total))),
         Bare("Bond %", formatPercent(Div(classSums["bonds"], total))),
         Bare("Cash %", formatPercent(Div(classSums["cash"], total)))>>
       \o (IF Gt(classSums["crypto"], Zero)
           THEN <<Bare("Crypto %", formatPercent(Div(classSums["crypto"], total)))>>
           ELSE <<>>)
  ELSE <<>>

\* annualizedVol > 0
SharpeGuard(values) == Gt(AnnualizedVol(DailyReturns(values)), Zero)

Sharpe(values) ==
  LET annualizedVol == AnnualizedVol(DailyReturns(values))
  IN IF SharpeGuard(values)
     THEN Div(Sub(Cagr(values), RISK_FREE_RATE), annualizedVol)
     ELSE Zero

VolDivisions(data) ==
  LET values == ValuesOf(data)
  IN IF HasReturnSeries(data) /\ SharpeGuard(values)
     THEN {Division("sharpe", AnnualizedVol(DailyReturns(values)))}
     ELSE {}

VolRatios(data) ==
  LET values == ValuesOf(data)
      annualizedVol == AnnualizedVol(DailyReturns(values))
      sharpe == Sharpe(values)
  IN IF HasReturnSeries(data)
     THEN <<Ratio("Volatility (ann.)", formatPercent(annualizedVol), volSentiment(annualizedVol)),
            Ratio("Sharpe ratio", ToFixed(sharpe, 2), sharpeFamily(sharpe))>>
     ELSE <<Bare("Volatility (ann.)", Sentinel),
            Bare("Sharpe ratio", Sentinel)>>

LiquidityEst(classSums, total) ==
  Div(Add(classSums["cash"], Mul(classSums["bonds"], Dec(8, 10))), total)

PracticalRatios(classSums, total) ==
  (IF Gt(total, Zero)
   THEN <<Ratio("Liquidity score (est.)", formatPercent(LiquidityEst(classSums, total)),
                liquiditySentiment(LiquidityEst(classSums, total)))>>
   ELSE <<>>)
  \o <<Bare("Turnover", Sentinel),
       Bare("Fee drag", Sentinel),
       Bare("Tax drag (est.)", Sentinel)>>

\* ------------------------------------------------------ assembly, filter

Section(id, ratios) == [id |-> id, ratios |-> ratios]

\* The ratios without the first filter.
FilterRatios_KeepSentinel(ratios) == ratios

\* ratios.filter((r) => r.value !== "--")
RECURSIVE FilterRatios(_)
FilterRatios(ratios) ==
  IF ratios = <<>> THEN <<>>
  ELSE (IF Head(ratios).value # Sentinel THEN <<Head(ratios)>> ELSE <<>>)
       \o FilterRatios(Tail(ratios))

\* The result without the second filter.
FilterSections_KeepAll(secs) == secs

\* .filter((s) => s.ratios.length > 0)
RECURSIVE FilterSections(_)
FilterSections(secs) ==
  IF secs = <<>> THEN <<>>
  ELSE (IF Len(Head(secs).ratios) > 0 THEN <<Head(secs)>> ELSE <<>>)
       \o FilterSections(Tail(secs))

FinalFilter(secs) ==
  FilterSections([i \in 1..Len(secs) |-> [secs[i] EXCEPT !.ratios = FilterRatios(secs[i].ratios)]])

\* ------------------------------------------------------------------ inputs

\* Price values drawn for the portfolio series (non-negative, 0 included).
PriceValues == {0, 1, 2}

\* Price values drawn for the benchmark series.
SpValues == {1, 2}

\* Lengths drawn for the benchmark series.
SpLens == 0..2

\* Values drawn for a holding.
HoldingValues == {0, 1, 2}

\* Dates are the trading-day numbers 1, 2, ...; the portfolio series has one point
\* per trading day, ascending.
DataSeries ==
  UNION {{[i \in 1..len |-> [date |-> i, valueUSD |-> Num(v[i])]] : v \in [1..len -> PriceValues]}
         : len \in 0..MaxLen}

SpPoints == {[date |-> d, valueUSD |-> Num(v)] : d \in 1..MaxLen, v \in SpValues}

\* The benchmark series: any order, gaps and repeated dates.
SpSeries == UNION {[1..len -> SpPoints] : len \in SpLens}

PriceHistories ==
  {[data |-> d] : d \in DataSeries}
    \cup {[data |-> d, sp500 |-> s] : d \in DataSeries, s \in SpSeries}

HoldingsLists ==
  UNION {{[i \in 1..len |-> [assetId |-> i, assetClass |-> c[i], valueUSD |-> Num(v[i])]]
            : c \in [1..len -> AssetClasses], v \in [1..len -> HoldingValues]}
         : len \in 0..MaxHoldings}

\* portfolio.totals.totalValueUSD is the sum of the holding values (data model).
ProfileOf(holdings) ==
  [portfolio |-> [holdings |-> holdings,
                  totals |-> [totalValueUSD |-> SumSeq([i \in 1..Len(holdings) |-> holdings[i].valueUSD])]]]

Profiles == {ProfileOf(hs) : hs \in HoldingsLists}

\* The portfolio and the price history the other family of inputs is drawn with.
SampleProfile ==
  ProfileOf(<<[assetId |-> 1, assetClass |-> "cash", valueUSD |-> Num(1)],
              [assetId |-> 2, assetClass |-> "stocks", valueUSD |-> Num(2)]>>)

\* The portfolio of 500 in cash and 1500 in stocks.
ExampleProfile ==
  ProfileOf(<<[assetId |-> 1, assetClass |-> "cash", valueUSD |-> Num(500)],
              [assetId |-> 2, assetClass |-> "stocks", valueUSD |-> Num(1500)]>>)

\* Twelve holdings, more than the ten the top-10 sum takes: one of value 2, ten of
\* value 1 and one of value 0 placed first, second or last.
LongProfiles ==
  {ProfileOf([i \in 1..12 |->
               [assetId |-> i,
                assetClass |-> "stocks",
                valueUSD |-> Num(IF i = zeroAt THEN 0 ELSE IF i = 3 THEN 2 ELSE 1)]])
     : zeroAt \in {1, 2, 12}}

SampleHistories ==
  {[data |-> <<>>],
   [data |-> <<[date |-> 1, valueUSD |-> Num(2)], [date |-> 2, valueUSD |-> Num(1)],
               [date |-> 3, valueUSD |-> Num(2)]>>,
    sp500 |-> <<[date |-> 1, valueUSD |-> Num(1)], [date |-> 3, valueUSD |-> Num(2)]>>],
   [data |-> <<[date |-> 1, valueUSD |-> Num(2)], [date |-> 2, valueUSD |-> Num(1)],
               [date |-> 3, valueUSD |-> Num(2)]>>,
    sp500 |-> <<[date |-> 1, valueUSD |-> Num(1)], [date |-> 2, valueUSD |-> Num(2)],
                [date |-> 3, valueUSD |-> Num(2)]>>]}

\* ------------------------------------------------------------ the engine

\* The state a call starts in: no section pushed, no division executed.
\* searchParams without the key h.
NoParams == [tab |-> [type |-> "string", chars |-> <<"1">>]]

\* No classifier is being applied and no page request is in progress.
Elsewhere ==
  /\ rated = [classifier |-> "none", inputs |-> <<>>, sentiments |-> <<>>]
  /\ params = NoParams
  /\ pageHoldings = <<>>
  /\ posted = <<>>

Enter ==
  /\ pc = "return-quality"
  /\ byClass = [c \in AssetClasses |-> Zero]
  /\ sections = <<>>
  /\ result = <<>>
  /\ divided = {}

Init ==
  /\ \/ profile = SampleProfile /\ priceHistory \in PriceHistories
     \/ /\ profile \in Profiles \cup {ExampleProfile} \cup LongProfiles
        /\ priceHistory \in SampleHistories
  /\ Enter
  /\ returned = <<>>
  /\ Elsewhere

holdings == profile.portfolio.holdings

total == profile.portfolio.totals.totalValueUSD

data == priceHistory.data

\* The section pushed twice.
Push_Twice(id, ratios, divs, next) ==
  /\ sections' = Append(Append(sections, Section(id, ratios)), Section(id, ratios))
  /\ divided' = divided \cup divs
  /\ pc' = next
  /\ UNCHANGED <<profile, priceHistory, byClass, result, returned, rated, pageVars>>

\* sections.unshift in place of sections.push.
Push_Unshift(id, ratios, divs, next) ==
  /\ sections' = <<Section(id, ratios)>> \o sections
  /\ divided' = divided \cup divs
  /\ pc' = next
  /\ UNCHANGED <<profile, priceHistory, byClass, result, returned, rated, pageVars>>

\* sections.push({ id, ratios }) and on to the next block; divs are the guarded
\* divisions the block executed on the way.
Push(id, ratios, divs, next) ==
  /\ sections' = Append(sections, Section(id, ratios))
  /\ divided' = divided \cup divs
  /\ pc' = next
  /\ UNCHANGED <<profile, priceHistory, byClass, result, returned, rated, pageVars>>

ReturnQuality ==
  /\ pc = "return-quality"
  /\ Push("return-quality", ReturnQualityRatios(data), {}, "risk-sharpe-misses")

RiskSharpeMisses ==
  /\ pc = "risk-sharpe-misses"
  /\ Push("risk-sharpe-misses", RiskRatios(data), RiskDivisions(data), "market-sensitivity")

MarketSensitivity ==
  /\ pc = "market-sensitivity"
  /\ IF MarketThrows(data, Sp500Of(priceHistory))
     THEN /\ pc' = "threw"
          /\ UNCHANGED <<profile, priceHistory, byClass, sections, result, divided, returned, rated, pageVars>>
     ELSE Push("market-sensitivity", MarketRatios(data, Sp500Of(priceHistory).value),
               MarketDivisions(data, Sp500Of(priceHistory).value), "tail-risk")

TailRisk ==
  /\ pc = "tail-risk"
  /\ Push("tail-risk", TailRatios(data), {}, "by-class")

SumByClass ==
  /\ pc = "by-class"
  /\ byClass' = ByClass(holdings)
  /\ pc' = "concentration"
  /\ UNCHANGED <<profile, priceHistory, sections, result, divided, returned, rated, pageVars>>

\* The list `holdings` after a sort in place: holdings.sort(...) without the copy.
HoldingsAfterSort_InPlace(hs) == SortByValueDesc(hs)

\* The list `holdings` after [...holdings].sort(...): the spread makes a new array
\* and the sort orders that one.
HoldingsAfterSort(hs) == hs

\* The concentration block: a push as in Push, and the sort of the holdings where
\* the guard lets the block compute.
Concentration ==
  /\ pc = "concentration"
  /\ sections' = Append(sections, Section("concentration", ConcRatios(holdings, total)))
  /\ pc' = "allocation"
  /\ profile' = IF ConcentrationGuard(holdings, total)
                THEN [profile EXCEPT !.portfolio.holdings = HoldingsAfterSort(holdings)]
                ELSE profile
  /\ UNCHANGED <<priceHistory, byClass, result, divided, returned, rated, pageVars>>

Allocation ==
  /\ pc = "allocation"
  /\ Push("allocation", AllocRatios(byClass, total), {}, "volatility")

Volatility ==
  /\ pc = "volatility"
  /\ Push("volatility", VolRatios(data), VolDivisions(data), "practical")

Practical ==
  /\ pc = "practical"
  /\ Push("practical", PracticalRatios(byClass, total), {}, "filter")

\* The return statement; the caller receives the filtered list.
Return ==
  /\ pc = "filter"
  /\ result' = FinalFilter(sections)
  /\ returned' = Append(returned, [profile |-> profile, priceHistory |-> priceHistory,
                                   result |-> FinalFilter(sections)])
  /\ pc' = "done"
  /\ UNCHANGED <<profile, priceHistory, byClass, sections, divided, rated, pageVars>>

Next ==
  \/ ReturnQuality
  \/ RiskSharpeMisses
  \/ MarketSensitivity
  \/ TailRisk
  \/ SumByClass
  \/ Concentration
  \/ Allocation
  \/ Volatility
  \/ Practical
  \/ Return

Spec == Init /\ [][Next]_vars

\* ------------------------------------------------ the rolling returns

\* Series lengths around the one-year threshold of the rolling returns.
RollingLens == (TRADING_DAYS_PER_YEAR - 2)..(TRADING_DAYS_PER_YEAR + 2)

\* A series of len points: the first two and the last one drawn, 1 in between.
RollingSeries(len, first, second, last) ==
  [i \in 1..len |->
     [date |-> i,
      valueUSD |-> Num(IF i = 1 THEN first ELSE IF i = 2 THEN second
                       ELSE IF i = len THEN last ELSE 1)]]

RollingHistories ==
  {[data |-> RollingSeries(len, first, second, last)] :
     len \in RollingLens, first \in PriceValues, second \in SpValues, last \in SpValues}

\* The return-quality block of a call on a series about one year long.  The later
\* blocks read nothing this block writes; they are not run on these series.
InitRolling ==
  /\ profile = SampleProfile
  /\ priceHistory \in RollingHistories
  /\ Enter
  /\ returned = <<>>
  /\ Elsewhere

NextRolling == ReturnQuality

SpecRolling == InitRolling /\ [][NextRolling]_vars

\* ---------------------------------------------------- the tails of long series

\* Lengths at which the 5% index of the sorted returns is 1, with 20 returns a
\* multiple of twenty and with 21, 25 and 26 not.
TailLens == {21, 22, 26, 27}

\* Price moves whose returns sum to 0: 4, 2, 1, 2 (returns -1/2, -1/2, +1) and
\* 10, 5, 4, 6.8 (returns -1/2, -1/5, +7/10).
TailShapes ==
  {<<Num(4), Num(2), Num(1), Num(2)>>, <<Num(10), Num(5), Num(4), Rat(34, 5)>>}

\* A series of len points that holds the first price, makes the move, and holds
\* the last price for the `after` points that remain.
TailSeries(len, shape, after) ==
  LET offset == len - Len(shape) - after
  IN [i \in 1..len |->
        [date |-> i,
         valueUSD |-> IF i <= offset THEN shape[1]
                      ELSE IF i - offset <= Len(shape) THEN shape[i - offset]
                      ELSE shape[Len(shape)]]]

TailHistories ==
  {[data |-> TailSeries(len, shape, after)] :
     len \in TailLens, shape \in TailShapes, after \in {0, 1}}

\* One call on a series of some tens of points.
InitTail ==
  /\ profile = SampleProfile
  /\ priceHistory \in TailHistories
  /\ Enter
  /\ returned = <<>>
  /\ Elsewhere

SpecTail == InitTail /\ [][Next]_vars

\* ------------------------------------------------------- repeated calls

\* The inputs a caller draws its calls from.
CallInputs ==
  {[profile |-> SampleProfile, priceHistory |-> h] : h \in SampleHistories}
    \cup {[profile |-> ProfileOf(<<>>),
           priceHistory |-> [data |-> <<[date |-> 1, valueUSD |-> Num(1)],
                                        [date |-> 2, valueUSD |-> Num(2)]>>]]}

InitCalls ==
  /\ \E in \in CallInputs : profile = in.profile /\ priceHistory = in.priceHistory
  /\ Enter
  /\ returned = <<>>
  /\ Elsewhere

\* The list a call pushes onto, were it kept from the previous call.
FreshSections_Kept == sections

\* const sections: RatioSection[] = []
FreshSections == <<>>

\* The next call of the caller, on any input: every local of the function is new.
Call ==
  /\ pc = "done"
  /\ Len(returned) < MaxCalls
  /\ \E in \in CallInputs : profile' = in.profile /\ priceHistory' = in.priceHistory
  /\ pc' = "return-quality"
  /\ sections' = FreshSections
  /\ byClass' = [c \in AssetClasses |-> Zero]
  /\ result' = <<>>
  /\ divided' = {}
  /\ UNCHANGED <<returned, rated, pageVars>>

NextCalls ==
  \/ Next
  \/ Call

SpecCalls == InitCalls /\ [][NextCalls]_vars

\* ----------------------------------------------- the classifiers, applied

\* The per-metric sentiment classifiers, by name.
Classifiers ==
  {"returnSentiment", "sharpeFamily", "drawdownSentiment", "calmarSentiment",
   "downsideDevSentiment", "ulcerSentiment", "durationSentiment", "betaSentiment",
   "alphaSentiment", "infoRatioSentiment", "varSentiment", "cvarSentiment",
   "skewnessSentiment", "kurtosisSentiment", "hhiSentiment", "effectiveNSentiment",
   "topHoldingPctSentiment", "top5PctSentiment", "top10PctSentiment",
   "volSentiment", "liquiditySentiment"}

\* The classifier named fn applied to the number x.
Sentiment(fn, x) ==
  CASE fn = "returnSentiment" -> returnSentiment(x)
    [] fn = "sharpeFamily" -> sharpeFamily(x)
    [] fn = "drawdownSentiment" -> drawdownSentiment(x)
    [] fn = "calmarSentiment" -> calmarSentiment(x)
    [] fn = "downsideDevSentiment" -> downsideDevSentiment(x)
    [] fn = "ulcerSentiment" -> ulcerSentiment(x)
    [] fn = "durationSentiment" -> durationSentiment(x)
    [] fn = "betaSentiment" -> betaSentiment(x)
    [] fn = "alphaSentiment" -> alphaSentiment(x)
    [] fn = "infoRatioSentiment" -> infoRatioSentiment(x)
    [] fn = "varSentiment" -> varSentiment(x)
    [] fn = "cvarSentiment" -> cvarSentiment(x)
    [] fn = "skewnessSentiment" -> skewnessSentiment(x)
    [] fn = "kurtosisSentiment" -> kurtosisSentiment(x)
    [] fn = "hhiSentiment" -> hhiSentiment(x)
    [] fn = "effectiveNSentiment" -> effectiveNSentiment(x)
    [] fn = "topHoldingPctSentiment" -> topHoldingPctSentiment(x)
    [] fn = "top5PctSentiment" -> top5PctSentiment(x)
    [] fn = "top10PctSentiment" -> top10PctSentiment(x)
    [] fn = "volSentiment" -> volSentiment(x)
    [] fn = "liquiditySentiment" -> liquiditySentiment(x)

\* The numbers the classifier named fn compares its input with, in hundredths.
CutPoints(fn) ==
  CASE fn = "returnSentiment" -> {10, 0, -5}
    [] fn = "sharpeFamily" -> {150, 50, 0}
    [] fn = "drawdownSentiment" -> {-10, -20, -35}
    [] fn = "calmarSentiment" -> {75, 30, 0}
    [] fn = "downsideDevSentiment" -> {10, 20, 35}
    [] fn = "ulcerSentiment" -> {500, 1500, 2500}
    [] fn = "durationSentiment" -> {1500, 3000, 4500}
    [] fn = "betaSentiment" -> {100, 150}
    [] fn = "alphaSentiment" -> {2, 0, -2}
    [] fn = "infoRatioSentiment" -> {50, 0, -50}
    [] fn = "varSentiment" -> {-1, -2, -4}
    [] fn = "cvarSentiment" -> {-2, -4, -7}
    [] fn = "skewnessSentiment" -> {50, -50, -100}
    [] fn = "kurtosisSentiment" -> {100, 300, 500}
    [] fn = "hhiSentiment" -> {10, 18, 25}
    [] fn = "effectiveNSentiment" -> {1000, 500, 300}
    [] fn = "topHoldingPctSentiment" -> {20, 35, 50}
    [] fn = "top5PctSentiment" -> {50, 70, 85}
    [] fn = "top10PctSentiment" -> {70, 85, 95}
    [] fn = "volSentiment" -> {10, 20, 35}
    [] fn = "liquiditySentiment" -> {30, 15, 5}

\* Half a hundredth: the distance at which inputs are drawn around a cut point.
HalfStep == Rat(1, 200)

\* Inputs drawn for the classifier named fn: each cut point, the numbers just below
\* and just above it, the negatives of all these, and the two infinities.
InputsOf(fn) ==
  LET near == UNION {{Dec(c, 100), Sub(Dec(c, 100), HalfStep), Add(Dec(c, 100), HalfStep)}
                     : c \in CutPoints(fn)}
  IN near \cup {Neg(x) : x \in near} \cup {Inf(1), Inf(-1)}

\* The engine is not running: the state of SpecSentiment and SpecPage outside their
\* own variables.
NoCall ==
  /\ profile = SampleProfile
  /\ priceHistory = [data |-> <<>>]
  /\ byClass = [c \in AssetClasses |-> Zero]
  /\ sections = <<>>
  /\ result = <<>>
  /\ divided = {}
  /\ returned = <<>>

\* Three inputs x < y < z are about to be rated by one classifier.
InitSentiment ==
  /\ NoCall
  /\ pc = "classify"
  /\ \E fn \in Classifiers :
       \E x, y, z \in InputsOf(fn) :
         /\ Lt(x, y) /\ Lt(y, z)
         /\ rated = [classifier |-> fn, inputs |-> <<x, y, z>>, sentiments |-> <<>>]
  /\ params = NoParams
  /\ pageHoldings = <<>>
  /\ posted = <<>>

\* The classifier is applied to each of the three inputs.
Classify ==
  /\ pc = "classify"
  /\ rated' = [rated EXCEPT !.sentiments =
                 [i \in 1..3 |-> Sentiment(rated.classifier, rated.inputs[i])]]
  /\ pc' = "classified"
  /\ UNCHANGED <<profile, priceHistory, byClass, sections, result, divided, returned, pageVars>>

NextSentiment == Classify

SpecSentiment == InitSentiment /\ [][NextSentiment]_vars

\* ------------------------------------------------------ the dashboard page
\*
\* A JavaScript string is the sequence of its characters here, each a string of
\* one character, so that split, lastIndexOf and slice act on positions.  pc is the
\* position of the request: "browsing" before it, "params", "parse",
\* "post-portfolio", "post-price-history" inside DashboardPage, and "awaiting",
\* "redirected" or "page-threw" after it.

\* The characters the typed query values are made of.
QueryChars == {"a", ":", ",", "1", "0", "-", "%"}

Digits == {"0", "1", "2", "3", "4", "5", "6", "7", "8", "9"}

DigitValue(ch) ==
  CASE ch = "0" -> 0 [] ch = "1" -> 1 [] ch = "2" -> 2 [] ch = "3" -> 3 [] ch = "4" -> 4
    [] ch = "5" -> 5 [] ch = "6" -> 6 [] ch = "7" -> 7 [] ch = "8" -> 8 [] ch = "9" -> 9

IsHex(ch) == ch \in Digits \cup {"a", "b", "c", "d", "e", "f", "A", "B", "C", "D", "E", "F"}

HexValue(ch) ==
  CASE ch \in Digits -> DigitValue(ch)
    [] ch \in {"a", "A"} -> 10 [] ch \in {"b", "B"} -> 11 [] ch \in {"c", "C"} -> 12
    [] ch \in {"d", "D"} -> 13 [] ch \in {"e", "E"} -> 14 [] ch \in {"f", "F"} -> 15

\* The character of a char code below 128; a character that no input is written
\* with is named by its code.
CharOf(code) ==
  CASE code = 37 -> "%" [] code = 44 -> "," [] code = 45 -> "-" [] code = 48 -> "0"
    [] code = 49 -> "1" [] code = 58 -> ":" [] code = 97 -> "a" [] code = 98 -> "b"
    [] OTHER -> "chr" \o ToString(code)

\* The escape of one of the drawn characters that encodeURIComponent escapes (it
\* keeps A-Z a-z 0-9 - _ . ! ~ * ' ( ) and escapes every other character).
EscapeOf(ch) ==
  CASE ch = "%" -> <<"%", "2", "5">>
    [] ch = "," -> <<"%", "2", "C">>
    [] ch = ":" -> <<"%", "3", "A">>
    [] OTHER -> <<ch>>

RECURSIVE encodeURIComponent(_)
encodeURIComponent(chars) ==
  IF chars = <<>> THEN <<>> ELSE EscapeOf(Head(chars)) \o encodeURIComponent(Tail(chars))

\* Percent-decoding, as [threw, chars].  An escape %XX of a code below 128 is its
\* character.  A "%" that starts no such escape is malformed: the strict decoder
\* throws URIError, the lenient one keeps the "%".  (A code of 128 or more begins a
\* multi-byte sequence, which takes a second escape to complete; a lone one is
\* malformed, and no input drawn writes a complete one.)
RECURSIVE PercentDecode(_, _)
PercentDecode(chars, strict) ==
  LET after(ch, rest) ==
        LET r == PercentDecode(rest, strict)
        IN [threw |-> r.threw, chars |-> IF r.threw THEN <<>> ELSE <<ch>> \o r.chars]
  IN IF chars = <<>> THEN [threw |-> FALSE, chars |-> <<>>]
     ELSE IF Head(chars) # "%" THEN after(Head(chars), Tail(chars))
     ELSE IF /\ Len(chars) >= 3
             /\ IsHex(chars[2]) /\ IsHex(chars[3])
             /\ 16 * HexValue(chars[2]) + HexValue(chars[3]) < 128
          THEN after(CharOf(16 * HexValue(chars[2]) + HexValue(chars[3])),
                     SubSeq(chars, 4, Len(chars)))
     ELSE IF strict THEN [threw |-> TRUE, chars |-> <<>>]
     ELSE after("%", Tail(chars))

decodeURIComponent(chars) == PercentDecode(chars, TRUE)

\* The value of a query parameter as searchParams delivers it: decoded once.
SearchParamOf(chars) == PercentDecode(chars, FALSE).chars

\* str.split(sep): the pieces between the separators ("" gives one empty piece).
RECURSIVE Split(_, _)
Split(chars, sep) ==
  IF \A i \in 1..Len(chars) : chars[i] # sep THEN <<chars>>
  ELSE LET first == CHOOSE i \in 1..Len(chars) :
                      chars[i] = sep /\ \A j \in 1..(i - 1) : chars[j] # sep
       IN <<SubSeq(chars, 1, first - 1)>> \o Split(SubSeq(chars, first + 1, Len(chars)), sep)

\* arr.join(sep)
RECURSIVE Join(_, _)
Join(pieces, sep) ==
  IF pieces = <<>> THEN <<>>
  ELSE IF Len(pieces) = 1 THEN pieces[1]
  ELSE pieces[1] \o <<sep>> \o Join(Tail(pieces), sep)

\* str.lastIndexOf(ch): the 0-based position of the last ch, or -1.
LastIndexOf(chars, ch) ==
  IF \A i \in 1..Len(chars) : chars[i] # ch THEN -1
  ELSE (CHOOSE i \in 1..Len(chars) :
          chars[i] = ch /\ \A j \in (i + 1)..Len(chars) : chars[j] # ch) - 1

\* str.slice(start, end) with 0-based positions; a negative one counts from the end.
Slice(chars, start, end) ==
  LET at(i) == IF i < 0 THEN (IF Len(chars) + i < 0 THEN 0 ELSE Len(chars) + i)
               ELSE (IF i > Len(chars) THEN Len(chars) ELSE i)
  IN SubSeq(chars, at(start) + 1, at(end))

RECURSIVE DecimalValue(_)
DecimalValue(digits) ==
  IF digits = <<>> THEN 0
  ELSE 10 * DecimalValue(SubSeq(digits, 1, Len(digits) - 1)) + DigitValue(digits[Len(digits)])

\* Number(str) on the strings drawn: "" is 0, an optionally signed run of digits is
\* its value, an optionally signed "Infinity" is that infinity, anything else is
\* NaN.  (Blanks, decimal points, exponents and 0x/0o/0b prefixes are not drawn.)
NumberOf(chars) ==
  LET signed == chars # <<>> /\ Head(chars) \in {"-", "+"}
      body == IF signed THEN Tail(chars) ELSE chars
      sign == IF signed /\ Head(chars) = "-" THEN -1 ELSE 1
  IN IF chars = <<>> THEN Zero
     ELSE IF body = <<"I", "n", "f", "i", "n", "i", "t", "y">> THEN Inf(sign)
     ELSE IF body # <<>> /\ \A i \in 1..Len(body) : body[i] \in Digits
          THEN Num(sign * DecimalValue(body))
     ELSE NaN

RECURSIVE DigitsOf(_)
DigitsOf(n) ==
  (IF n >= 10 THEN DigitsOf(n \div 10) ELSE <<>>) \o <<CharOf(48 + (n % 10))>>

\* String(x) for NaN, the infinities and the integers.
NumberToString(x) ==
  CASE x.k = "nan" -> <<"N", "a", "N">>
    [] x.k = "inf" -> (IF x.n < 0 THEN <<"-">> ELSE <<>>)
                      \o <<"I", "n", "f", "i", "n", "i", "t", "y">>
    [] OTHER -> (IF x.n < 0 THEN <<"-">> ELSE <<>>) \o DigitsOf(AbsInt(x.n))

\* x || 0 on a number: 0 and NaN are falsy.
OrZero(x) == IF x.k = "nan" \/ StrictEq(x, Zero) THEN Zero ELSE x

\* The map callback of parseHoldings, as [threw, holding].
ParsePair(pair) ==
  LET sep == LastIndexOf(pair, ":")
      assetId == decodeURIComponent(Slice(pair, 0, sep))
      valueUSD == OrZero(NumberOf(Slice(pair, sep + 1, Len(pair))))
  IN [threw |-> assetId.threw,
      holding |-> [assetId |-> assetId.chars, valueUSD |-> valueUSD]]

\* holding.valueUSD > 0
KeepsHolding(holding) == Gt(holding.valueUSD, Zero)

RECURSIVE FilterHoldings(_)
FilterHoldings(hs) ==
  IF hs = <<>> THEN <<>>
  ELSE (IF KeepsHolding(Head(hs)) THEN <<Head(hs)>> ELSE <<>>) \o FilterHoldings(Tail(hs))

\* parseHoldings(h), as [threw, holdings]: decodeURIComponent throws out of it.
parseHoldings(h) ==
  LET pairs == Split(h, ",")
      parsed == [i \in 1..Len(pairs) |-> ParsePair(pairs[i])]
  IN IF \E i \in 1..Len(parsed) : parsed[i].threw
     THEN [threw |-> TRUE, holdings |-> <<>>]
     ELSE [threw |-> FALSE,
           holdings |-> FilterHoldings([i \in 1..Len(parsed) |-> parsed[i].holding])]

\* JSON.stringify of a number: a finite number is itself, NaN and the infinities
\* are written null.
JsonNumber(x) == IF x.k = "fin" THEN x ELSE Null

\* JSON.stringify({ holdings }), as the value the backend parses from the body.
JsonBody(hs) ==
  [holdings |-> [i \in 1..Len(hs) |->
                   [assetId |-> hs[i].assetId, valueUSD |-> JsonNumber(hs[i].valueUSD)]]]

StringParam(chars) == [type |-> "string", chars |-> chars]

\* typeof params.h === "string" ? params.h : undefined, as [defined, chars].
HOf(searchParams) ==
  IF "h" \in DOMAIN searchParams /\ searchParams.h.type = "string"
  THEN [defined |-> TRUE, chars |-> searchParams.h.chars]
  ELSE [defined |-> FALSE, chars |-> <<>>]

\* !h: undefined and the empty string are falsy.
NoH(h) == ~h.defined \/ h.chars = <<>>

\* The asset ids of the select page: a plain one and one with a colon.
AssetIds == {<<"a">>, <<"b", ":">>}

\* The values a row of the select page holds: 0 at first, then parseFloat of the
\* cleaned input, which is NaN for an input such as "-".
SelectedValues == {Zero, One, Num(-1), NaN}

\* The selections: [...selected] in insertion order, with the value of each id.
Selections ==
  UNION {{[i \in 1..Len(ids) |-> [assetId |-> ids[i], valueUSD |-> v[i]]]
            : v \in [1..Len(ids) -> SelectedValues]}
         : ids \in {<<a>> : a \in AssetIds}
                   \cup {p \in AssetIds \X AssetIds : p[1] # p[2]}}

\* Values of h that take more characters than MaxQuery.
LongQueries ==
  {<<"a", ":", "I", "n", "f", "i", "n", "i", "t", "y">>,
   <<"a", ":", "1", ",", "b", ":", "0", ",", "a", ":", "-", "1">>,
   <<"a", ":", "x", ",", "b", "%", "3", "A", ":", "1", "0">>}

TypedQueries == UNION {[1..len -> QueryChars] : len \in 0..MaxQuery} \cup LongQueries

\* searchParams of a URL entered by hand: any value of h, h given twice (an array),
\* or no h.
TypedParams ==
  {[h |-> StringParam(q)] : q \in TypedQueries} \cup {[h |-> [type |-> "array"]], NoParams}

InitPage ==
  /\ NoCall
  /\ pc = "browsing"
  /\ rated = [classifier |-> "none", inputs |-> <<>>, sentiments |-> <<>>]
  /\ params = NoParams
  /\ pageHoldings = <<>>
  /\ posted = <<>>

enginePart == <<profile, priceHistory, byClass, sections, result, divided, returned, rated>>

\* View Dashboard on the select page: router.push("/dashboard?h=" + pairs.join(",")),
\* enabled for a non-empty selection.
ViewDashboard ==
  /\ pc = "browsing"
  /\ \E selected \in Selections :
       LET pairs == [i \in 1..Len(selected) |->
                       encodeURIComponent(selected[i].assetId) \o <<":">>
                         \o NumberToString(selected[i].valueUSD)]
       IN params' = [h |-> StringParam(SearchParamOf(Join(pairs, ",")))]
  /\ pc' = "params"
  /\ UNCHANGED <<enginePart, pageHoldings, posted>>

\* /dashboard opened with a URL entered by hand.
OpenUrl ==
  /\ pc = "browsing"
  /\ params' \in TypedParams
  /\ pc' = "params"
  /\ UNCHANGED <<enginePart, pageHoldings, posted>>

\* const h = ...; if (!h) redirect("/select")
ReadParams ==
  /\ pc = "params"
  /\ pc' = IF NoH(HOf(params)) THEN "redirected" ELSE "parse"
  /\ UNCHANGED <<enginePart, pageVars>>

\* const holdings = parseHoldings(h); if (holdings.length === 0) redirect("/select")
ParseHoldings ==
  /\ pc = "parse"
  /\ LET parsed == parseHoldings(HOf(params).chars)
     IN IF parsed.threw
        THEN pc' = "page-threw" /\ UNCHANGED pageHoldings
        ELSE /\ pageHoldings' = parsed.holdings
             /\ pc' = IF Len(parsed.holdings) = 0 THEN "redirected" ELSE "post-portfolio"
  /\ UNCHANGED <<enginePart, params, posted>>

\* fetch(url, { method: "POST", body: JSON.stringify({ holdings }) })
Post(url, hs, next) ==
  /\ posted' = Append(posted, [url |-> url, body |-> JsonBody(hs)])
  /\ pc' = next
  /\ UNCHANGED <<enginePart, params, pageHoldings>>

PostCustomPortfolio ==
  /\ pc = "post-portfolio"
  /\ Post("/portfolio/custom", pageHoldings, "post-price-history")

PostCustomPriceHistory ==
  /\ pc = "post-price-history"
  /\ Post("/portfolio/custom/price-history", pageHoldings, "awaiting")

NextPage ==
  \/ ViewDashboard
  \/ OpenUrl
  \/ ReadParams
  \/ ParseHoldings
  \/ PostCustomPortfolio
  \/ PostCustomPriceHistory

SpecPage == InitPage /\ [][NextPage]_vars

\* ------------------------------------------------------------------ claims

\* Every ratio of every section assembled so far, before the final filter.
BuiltRatios == UNION {{sections[i].ratios[j] : j \in 1..Len(sections[i].ratios)} : i \in 1..Len(sections)}

\* The ratios assembled so far for the section `id`.
BuiltRatiosOf(id) ==
  UNION {{sections[i].ratios[j] : j \in 1..Len(sections[i].ratios)}
         : i \in {k \in 1..Len(sections) : sections[k].id = id}}

\* Every ratio of the returned list.
ReturnedRatios == UNION {{result[i].ratios[j] : j \in 1..Len(result[i].ratios)} : i \in 1..Len(result)}

ReturnedIds == {result[i].id : i \in 1..Len(result)}

AllBuilt == Len(sections) = 8

Returned == pc = "done"

\* C1: a ratio built with the sentinel value carries no sentiment, in every section
\* as assembled before the final filter.
C1_SentinelHasNoSentiment ==
  \A r \in BuiltRatios : r.value = Sentinel => r.sentiment = Undefined

\* All eight sections are assembled, some ratio is the sentinel and some ratio is
\* computed and rated.
C1_Witness ==
  /\ AllBuilt
  /\ \E r \in BuiltRatios : r.value = Sentinel
  /\ \E r \in BuiltRatiosOf("market-sensitivity") : r.value = Sentinel
  /\ \E r \in BuiltRatios : r.value # Sentinel /\ r.sentiment # Undefined

\* C2: the returned list holds no sentinel ratio and no section without ratios.
C2_ReturnedListIsFiltered ==
  Returned =>
    /\ \A r \in ReturnedRatios : r.value # Sentinel
    /\ \A i \in 1..Len(result) : Len(result[i].ratios) > 0

\* A call returned some sections and dropped others, one of them built empty.
C2_Witness ==
  /\ Returned
  /\ Len(result) > 0
  /\ Len(result) < Len(sections)
  /\ \E i \in 1..Len(sections) : sections[i].ratios = <<>>
  /\ \E r \in BuiltRatios : r.value = Sentinel

ReturnSeriesSections == {"return-quality", "risk-sharpe-misses", "market-sensitivity", "tail-risk"}

\* C3: with fewer than 2 price points every ratio of the return-quality, risk,
\* market-sensitivity and tail-risk sections is the sentinel without a sentiment,
\* and none of the four sections is returned.
C3_ShortSeriesAllSentinel ==
  Len(data) < 2 =>
    /\ \A id \in ReturnSeriesSections : \A r \in BuiltRatiosOf(id) :
         r.value = Sentinel /\ r.sentiment = Undefined
    /\ Returned => ReturnedIds \cap ReturnSeriesSections = {}

\* A call on a one-point series, with a benchmark and holdings, returned.
C3_Witness ==
  /\ Returned
  /\ Len(data) = 1
  /\ "sp500" \in DOMAIN priceHistory /\ Len(priceHistory.sp500) > 0
  /\ Len(holdings) > 0
  /\ \A id \in ReturnSeriesSections : Cardinality(BuiltRatiosOf(id)) >= 5

\* C4: with a portfolio total of 0 every concentration ratio is the sentinel, no
\* allocation ratio is reported, and neither section is returned.
C4_ZeroTotalNoConcentrationNoAllocation ==
  total = Zero =>
    /\ \A r \in BuiltRatiosOf("concentration") \cup BuiltRatiosOf("allocation") :
         r.value = Sentinel
    /\ Returned => ReturnedIds \cap {"concentration", "allocation"} = {}

\* A call on holdings that are all worth 0 returned.
C4_Witness ==
  /\ Returned
  /\ total = Zero
  /\ Len(holdings) > 0
  /\ Cardinality(BuiltRatiosOf("concentration")) = 7

\* The blocks in the order they run, and those that have run (by-class pushes nothing).
BlockOrder ==
  <<"return-quality", "risk-sharpe-misses", "market-sensitivity", "tail-risk", "by-class",
    "concentration", "allocation", "volatility", "practical", "filter", "done">>

Blocks == {"return-quality", "risk-sharpe-misses", "market-sensitivity", "tail-risk",
           "concentration", "allocation", "volatility", "practical"}

PositionOf(p) == CHOOSE i \in 1..Len(BlockOrder) : BlockOrder[i] = p

BlockRan(b) == pc # "threw" /\ PositionOf(b) < PositionOf(pc)

NonNumericValues == {"NaN", "NaN%", "Infinity", "Infinity%", "-Infinity", "-Infinity%"}

\* Some price point that is the denominator of a daily return is 0.
ZeroDenominator ==
  HasReturnSeries(data) /\ \E i \in 1..(Len(data) - 1) : data[i].valueUSD = Zero

PositivePrices == \A i \in 1..Len(data) : Gt(data[i].valueUSD, Zero)

RatiosLabelled(ratios, label) == {r \in ratios : r.label = label}

\* C6: when a daily-return denominator is 0, no metric is reported as NaN or an
\* infinity: the metrics derived from that return are the sentinel.
C6_ZeroDenominatorGivesSentinel ==
  ZeroDenominator => \A r \in BuiltRatios : r.value \notin NonNumericValues

\* C7: with two or more (positive) prices and no negative daily return, the Sortino
\* ratio is the sentinel without a sentiment and is not returned.
C7_SortinoSentinelWithoutDownside ==
  (/\ HasReturnSeries(data)
   /\ PositivePrices
   /\ FilterNegative(DailyReturns(ValuesOf(data))) = <<>>)
  => /\ \A r \in RatiosLabelled(BuiltRatios, "Sortino ratio") :
          r.value = Sentinel /\ r.sentiment = Undefined
     /\ Returned => RatiosLabelled(ReturnedRatios, "Sortino ratio") = {}

\* C8: with two or more (positive) prices and a max drawdown of exactly 0, the Calmar
\* ratio is the sentinel without a sentiment.
C8_CalmarSentinelWithoutDrawdown ==
  (/\ HasReturnSeries(data)
   /\ PositivePrices
   /\ StrictEq(MaxDD(ValuesOf(data)), Zero))
  => \A r \in RatiosLabelled(BuiltRatios, "Calmar ratio") :
       r.value = Sentinel /\ r.sentiment = Undefined

\* C9: with two or more (positive) prices and an annualized volatility of 0, the
\* Sharpe ratio is the sentinel without a sentiment.
C9_SharpeSentinelWithoutVolatility ==
  (/\ HasReturnSeries(data)
   /\ PositivePrices
   /\ StrictEq(AnnualizedVol(DailyReturns(ValuesOf(data))), Zero))
  => \A r \in RatiosLabelled(BuiltRatios, "Sharpe ratio") :
       r.value = Sentinel /\ r.sentiment = Undefined

\* The benchmark-aligned window of the call.
AlignedWindow == Aligned(data, Sp500Of(priceHistory).value)

\* C10: with an aligned window of two or more points (positive prices) and a
\* tracking error of 0, the Information ratio is the sentinel without a sentiment
\* and the other four market-sensitivity ratios are evaluated.
C10_InfoRatioSentinelWithoutTrackingError ==
  (/\ HasReturnSeries(data)
   /\ PositivePrices
   /\ Len(AlignedWindow) >= 2
   /\ StrictEq(TrackingErr(PortReturns(AlignedWindow), SpReturns(AlignedWindow)), Zero))
  => \A r \in BuiltRatiosOf("market-sensitivity") :
       IF r.label = "Information ratio"
       THEN r.value = Sentinel /\ r.sentiment = Undefined
       ELSE r.value # Sentinel

\* The guarded quotients: Sortino, Calmar, beta, Information ratio, R2, Sharpe.
GuardedQuotients == {"sortino", "calmar", "beta", "infoRatio", "r2", "sharpe"}

\* C11: every division executed for the Sortino, Calmar, Sharpe, Information-ratio,
\* beta and R2 quotients has a nonzero denominator.
C11_NoDivisionByZero ==
  \A d \in divided : d.quotient \in GuardedQuotients /\ StrictNe(d.by, Zero)

\* A call that returned executed all six guarded divisions.
C11_Witness ==
  /\ Returned
  /\ {d.quotient : d \in divided} = GuardedQuotients

\* The risk block ran on a series of two or more points.
RiskEvaluated == BlockRan("risk-sharpe-misses") /\ HasReturnSeries(data)

\* C12: for a series of two or more non-negative prices, the max drawdown reported
\* is a number <= 0.
C12_MaxDrawdownNonPositive ==
  RiskEvaluated
  => /\ Le(MaxDD(ValuesOf(data)), Zero)
     /\ \A r \in RatiosLabelled(BuiltRatiosOf("risk-sharpe-misses"), "Max drawdown") :
          r.value = formatPercent(MaxDD(ValuesOf(data))) /\ r.value \notin NonNumericValues

\* The sign of a number: -1, 0 or 1, and 2 for NaN.
SignOf(x) == IF x.k = "nan" THEN 2 ELSE SgnInt(x.n)

\* The reported Calmar ratio is the two-digit print of the Calmar quotient.
CalmarReported ==
  \A r \in RatiosLabelled(BuiltRatiosOf("risk-sharpe-misses"), "Calmar ratio") :
    r.value = ToFixed(Calmar(ValuesOf(data)), 2)

ConcentrationEvaluated == BlockRan("concentration") /\ ConcentrationGuard(holdings, total)

\* C14: for a nonempty holdings list with total > 0, the weights the concentration
\* block divides out sum to exactly 1, the total being the sum of the holding values.
C14_WeightsSumToOne ==
  ConcentrationEvaluated
  => /\ total = SumSeq([i \in 1..Len(holdings) |-> holdings[i].valueUSD])
     /\ SumSeq(Weights(holdings, total)) = One

\* A call returned for two holdings of different positive values.
C14_Witness ==
  /\ Returned
  /\ ConcentrationGuard(holdings, total)
  /\ Len(holdings) = 2
  /\ Gt(holdings[1].valueUSD, Zero)
  /\ Gt(holdings[2].valueUSD, holdings[1].valueUSD)

\* C15: for a nonempty holdings list with non-negative values and total > 0, the HHI
\* reported lies in (0, 1] and the effective number of holdings reported lies in
\* [1, number of holdings].
C15_HhiAndEffectiveNInRange ==
  ConcentrationEvaluated
  => LET hhi == Hhi(holdings, total)
         effectiveN == EffectiveN(holdings, total)
         built == BuiltRatiosOf("concentration")
     IN /\ Gt(hhi, Zero) /\ Le(hhi, One)
        /\ Ge(effectiveN, One) /\ Le(effectiveN, Num(Len(holdings)))
        /\ \A r \in RatiosLabelled(built, "HHI (concentration)") : r.value = ToFixed(hhi, 4)
        /\ \A r \in RatiosLabelled(built, "Effective # of holdings") :
             r.value = ToFixed(effectiveN, 1)

\* A call returned an HHI below 1 for two holdings of equal positive value.
C15_Witness ==
  /\ Returned
  /\ Len(holdings) = 2
  /\ Gt(holdings[1].valueUSD, Zero)
  /\ holdings[2].valueUSD = holdings[1].valueUSD
  /\ \E r \in RatiosLabelled(ReturnedRatios, "HHI (concentration)") : r.value = "0.5000"
  /\ \E r \in RatiosLabelled(ReturnedRatios, "Effective # of holdings") : r.value = "2.0"

\* C16: the engine is deterministic and keeps no state between calls: any two calls
\* of a caller on the same (profile, priceHistory), whatever calls lie between them,
\* return the same list of sections.
C16_SameInputSameOutput ==
  \A i, j \in 1..Len(returned) :
    (returned[i].profile = returned[j].profile
       /\ returned[i].priceHistory = returned[j].priceHistory)
    => returned[i].result = returned[j].result

\* Three calls returned: the first and the third on one input, the second on another
\* input with another result.
C16_Witness ==
  /\ Len(returned) = 3
  /\ returned[1].profile = returned[3].profile
  /\ returned[1].priceHistory = returned[3].priceHistory
  /\ returned[2].priceHistory # returned[1].priceHistory
  /\ returned[2].result # returned[1].result
  /\ returned[1].result # <<>>

\* The labels of the five market-sensitivity ratios.
MarketLabels ==
  {"Beta (vs S&P 500)", "Alpha (vs benchmark)", "Tracking error", "Information ratio", "R2"}

\* The benchmark is missing or empty, shares no date with the portfolio series, or
\* gives fewer than two aligned points.
NoBenchmarkWindow ==
  \/ "sp500" \notin DOMAIN priceHistory
  \/ Sp500Of(priceHistory).value = <<>>
  \/ \A i \in 1..Len(data) : ~SpMapHas(Sp500Of(priceHistory).value, data[i].date)
  \/ Len(AlignedWindow) < 2

\* C17: without a benchmark window, all five market-sensitivity ratios are the
\* sentinel together and the section is absent from the returned list, also for a
\* portfolio series of two or more points.
C17_NoBenchmarkNoMarketSection ==
  (BlockRan("market-sensitivity") /\ NoBenchmarkWindow)
  => /\ {r.label : r \in BuiltRatiosOf("market-sensitivity")} = MarketLabels
     /\ \A r \in BuiltRatiosOf("market-sensitivity") :
          r.value = Sentinel /\ r.sentiment = Undefined
     /\ Returned => "market-sensitivity" \notin ReturnedIds

\* A call returned for a portfolio series of two or more points whose benchmark is
\* not empty but gives a single aligned point; other sections are returned.
C17_Witness ==
  /\ Returned
  /\ HasReturnSeries(data)
  /\ Sp500Of(priceHistory).value # <<>>
  /\ Len(AlignedWindow) = 1
  /\ "tail-risk" \in ReturnedIds
  /\ "market-sensitivity" \notin ReturnedIds

\* The ids of the returned sections, in the order returned.
ResultIds == [i \in 1..Len(result) |-> result[i].id]

\* ids is a subsequence of order (whose elements are distinct): every id occurs in
\* order, and ids keeps the relative positions of order.
IsSubsequenceOf(ids, order) ==
  /\ \A i \in 1..Len(ids) : \E k \in 1..Len(order) : order[k] = ids[i]
  /\ \A i, j \in 1..Len(ids) :
       i < j => \E k, m \in 1..Len(order) : k < m /\ order[k] = ids[i] /\ order[m] = ids[j]

\* The order of sections with the second id written "risk-beyond-sharpe".
NamedSectionOrder ==
  <<"return-quality", "risk-beyond-sharpe", "market-sensitivity", "tail-risk",
    "concentration", "allocation", "volatility", "practical">>

\* The ids the eight pushes give their sections, in the order of the pushes.
PushedSectionOrder ==
  <<"return-quality", "risk-sharpe-misses", "market-sensitivity", "tail-risk",
    "concentration", "allocation", "volatility", "practical">>

\* C18 (as stated): the ids of the returned sections form a subsequence of
\* (return-quality, risk-beyond-sharpe, market-sensitivity, tail-risk, concentration,
\* allocation, volatility, practical).
C18_OrderWithNamedIds ==
  Returned => IsSubsequenceOf(ResultIds, NamedSectionOrder)

\* C18 (amended): the ids of the returned sections form a subsequence of
\* (return-quality, risk-sharpe-misses, market-sensitivity, tail-risk, concentration,
\* allocation, volatility, practical): no other id occurs, none occurs twice and no
\* two sections are reordered.
C18_SectionOrder ==
  Returned => IsSubsequenceOf(ResultIds, PushedSectionOrder)

\* A call returned the risk section and four or more others, with the
\* market-sensitivity section dropped between them.
C18_Witness ==
  /\ Returned
  /\ Len(result) >= 5
  /\ "risk-sharpe-misses" \in ReturnedIds
  /\ "tail-risk" \in ReturnedIds
  /\ "market-sensitivity" \notin ReturnedIds

\* The rolling-return ratios built, as [years, ratio].
RollingBuilt ==
  {[years |-> y, ratio |-> r] :
     y \in {1, 3, 5},
     r \in BuiltRatiosOf("return-quality")}

RollingLabel(years) ==
  CASE years = 1 -> "Rolling 1Y return"
    [] years = 3 -> "Rolling 3Y return"
    [] years = 5 -> "Rolling 5Y return"

\* C19: the rolling 1Y/3Y/5Y return is reported exactly when the series has at least
\* 252/756/1260 points; when reported, it is computed from the existing point exactly
\* 252/756/1260 positions before the last one; otherwise it is the sentinel with no
\* sentiment.
C19_RollingFromExistingPoint ==
  \A b \in {x \in RollingBuilt : x.ratio.label = RollingLabel(x.years)} :
    LET values == ValuesOf(data)
        k == b.years * TRADING_DAYS_PER_YEAR
        base == Len(values) - k
    IN IF Len(values) >= k
       THEN /\ base \in 1..Len(values)
            /\ b.ratio.value =
                 formatPercent(Sub(MathPow(Div(values[Len(values)], values[base]),
                                           1, b.years), One))
       ELSE b.ratio.value = Sentinel /\ b.ratio.sentiment = Undefined

\* The point i of the series lies strictly below the running peak.
BelowPeak(values, i) == Lt(values[i], PeakAt(values, i))

\* The number of points of the longest contiguous run below the running peak.
LongestRunBelowPeak(values) ==
  LET runs == {r \in (1..Len(values)) \X (1..Len(values)) :
                 r[1] <= r[2] /\ \A m \in r[1]..r[2] : BelowPeak(values, m)}
      lengths == {0} \cup {r[2] - r[1] + 1 : r \in runs}
  IN CHOOSE n \in lengths : \A m \in lengths : m <= n

\* C20: for a series of two or more points, the max drawdown duration reported is the
\* number of points of the longest contiguous run strictly below the running peak
\* (1 for a single point below the peak between two peaks).
C20_DurationCountsSamples ==
  RiskEvaluated
  => \A r \in RatiosLabelled(BuiltRatiosOf("risk-sharpe-misses"), "Max drawdown duration (days)") :
       r.value = StringOf(LongestRunBelowPeak(ValuesOf(data)))

\* The greatest of the values 1..i, chosen from the set of those values.
RunningMax(values, i) ==
  CHOOSE m \in {values[j] : j \in 1..i} : \A j \in 1..i : Ge(m, values[j])

\* The least of value[i] / max(value[1..i]) - 1 over all points i.
MinDrawdown(values) ==
  LET drawdowns == {Sub(Div(values[i], RunningMax(values, i)), One) : i \in 1..Len(values)}
  IN CHOOSE m \in drawdowns : \A d \in drawdowns : Le(m, d)

\* 100000, 110000, 99000, 120000
DrawdownExample == <<Num(100000), Num(110000), Num(99000), Num(120000)>>

\* C21: for a series of two or more positive prices, the max drawdown reported is the
\* minimum over all points i of value[i] / max(value[0..i]) - 1, printed as a
\* percentage; the series 100000, 110000, 99000, 120000 gives -10.0%.
C21_MaxDrawdownIsMinOverRunningPeak ==
  /\ RiskEvaluated /\ PositivePrices
     => /\ RatiosLabelled(BuiltRatiosOf("risk-sharpe-misses"), "Max drawdown") # {}
        /\ \A r \in RatiosLabelled(BuiltRatiosOf("risk-sharpe-misses"), "Max drawdown") :
             r.value = formatPercent(MinDrawdown(ValuesOf(data)))
  /\ formatPercent(MaxDD(DrawdownExample)) = "-10.0%"

\* The risk block ran on three positive prices whose deepest drawdown lies at an inner
\* point, below a peak, and is recovered by the last point.
C21_Witness ==
  /\ RiskEvaluated /\ PositivePrices
  /\ Len(data) = 3
  /\ Lt(data[2].valueUSD, data[1].valueUSD)
  /\ StrictEq(data[3].valueUSD, data[1].valueUSD)
  /\ \E r \in RatiosLabelled(BuiltRatiosOf("risk-sharpe-misses"), "Max drawdown") :
       r.value = "-50.0%"

\* The market block ran on a series of two or more points with a non-empty benchmark.
MarketEvaluated ==
  /\ BlockRan("market-sensitivity")
  /\ HasReturnSeries(data)
  /\ Len(Sp500Of(priceHistory).value) > 0

\* The positions of the portfolio points whose date is the date of some sp500 point.
MatchedPositions ==
  {i \in 1..Len(data) :
     \E j \in 1..Len(Sp500Of(priceHistory).value) :
       Sp500Of(priceHistory).value[j].date = data[i].date}

\* The sp500 values recorded for a date.
BenchmarkValuesOn(date) ==
  {Sp500Of(priceHistory).value[j].valueUSD :
     j \in {m \in 1..Len(Sp500Of(priceHistory).value) :
              Sp500Of(priceHistory).value[m].date = date}}

\* The window holds one pair per matched portfolio point and no other, in portfolio
\* order, each with the portfolio value and an sp500 value of that point's date.
IsDateJoin(window) ==
  /\ Len(window) = Cardinality(MatchedPositions)
  /\ \A i \in MatchedPositions :
       LET rank == Cardinality({m \in MatchedPositions : m <= i})
       IN /\ window[rank].port = data[i].valueUSD
          /\ window[rank].sp \in BenchmarkValuesOn(data[i].date)

\* No date occurs twice in the benchmark series.
BenchmarkDatesDistinct ==
  \A i, j \in 1..Len(Sp500Of(priceHistory).value) :
    Sp500Of(priceHistory).value[i].date = Sp500Of(priceHistory).value[j].date => i = j

\* The date join written out by rank: the pair r is the r-th matched portfolio point
\* with the sp500 value of its date.
DateJoin ==
  [r \in 1..Cardinality(MatchedPositions) |->
     LET i == CHOOSE m \in MatchedPositions :
                Cardinality({n \in MatchedPositions : n <= m}) = r
     IN [port |-> data[i].valueUSD,
         sp |-> CHOOSE v \in BenchmarkValuesOn(data[i].date) : TRUE]]

\* C22: the benchmark is joined by date, not by position: the aligned window is
\* exactly the portfolio points whose date is the date of some sp500 point, in
\* portfolio order, each paired with the sp500 value of that date, whatever the order
\* or the gaps of the sp500 series; the tracking error reported is the one of that
\* window.
C22_BenchmarkJoinedByDate ==
  MarketEvaluated
  => /\ IsDateJoin(AlignedWindow)
     /\ BenchmarkDatesDistinct
        => /\ AlignedWindow = DateJoin
           /\ \A r \in RatiosLabelled(BuiltRatiosOf("market-sensitivity"), "Tracking error") :
                r.value = IF Len(DateJoin) >= 2
                          THEN formatPercent(TrackingErr(PortReturns(DateJoin), SpReturns(DateJoin)))
                          ELSE Sentinel

\* The market block ran on three portfolio points and a benchmark that lists the
\* third date before the first and has no point for the second: the window is the
\* first and the third portfolio point with the benchmark values of those dates.
C22_Witness ==
  /\ MarketEvaluated /\ PositivePrices
  /\ Len(data) = 3
  /\ Len(Sp500Of(priceHistory).value) = 2
  /\ Sp500Of(priceHistory).value[1].date = data[3].date
  /\ Sp500Of(priceHistory).value[2].date = data[1].date
  /\ StrictNe(Sp500Of(priceHistory).value[1].valueUSD, Sp500Of(priceHistory).value[2].valueUSD)
  /\ StrictNe(data[2].valueUSD, data[3].valueUSD)
  /\ AlignedWindow = <<[port |-> data[1].valueUSD, sp |-> Sp500Of(priceHistory).value[2].valueUSD],
                       [port |-> data[3].valueUSD, sp |-> Sp500Of(priceHistory).value[1].valueUSD]>>
  /\ \E r \in RatiosLabelled(BuiltRatiosOf("market-sensitivity"), "Tracking error") :
       r.value # Sentinel

\* The place of a sentiment on the scale positive > neutral > slightly-negative >
\* very-negative.
RankOf(sentiment) ==
  CASE sentiment = "positive" -> 3
    [] sentiment = "neutral" -> 2
    [] sentiment = "slightly-negative" -> 1
    [] sentiment = "very-negative" -> 0

Classified == pc = "classified"

\* The sentiments of x < y < z neither improve and then worsen nor worsen and then
\* improve.
NoTurn ==
  LET r == [i \in 1..3 |-> RankOf(rated.sentiments[i])]
  IN /\ ~(r[1] < r[2] /\ r[2] > r[3])
     /\ ~(r[1] > r[2] /\ r[2] < r[3])

\* C23 as stated: every classifier is a monotonic step function of its input: the
\* sentiments of inputs x < y < z never improve and then worsen again, nor worsen
\* and then improve.
C23_EveryClassifierMonotonic == Classified => NoTurn

\* C23: every classifier other than betaSentiment is a monotonic step function of
\* its input; betaSentiment is a monotonic step function of the magnitude of its
\* input: the sentiment never improves as |b| grows.
C23_MonotonicButBetaByMagnitude ==
  Classified
  => IF rated.classifier = "betaSentiment"
     THEN \A i, j \in 1..3 :
            Le(MathAbs(rated.inputs[i]), MathAbs(rated.inputs[j]))
            => RankOf(rated.sentiments[i]) >= RankOf(rated.sentiments[j])
     ELSE NoTurn

\* A classifier other than betaSentiment rated three inputs with three different
\* sentiments.
C23_Witness ==
  /\ Classified
  /\ rated.classifier # "betaSentiment"
  /\ Cardinality({rated.sentiments[i] : i \in 1..3}) = 3

\* The values of the ratios labelled `label` in the section `id` as built.
ValuesBuilt(id, label) == {r.value : r \in RatiosLabelled(BuiltRatiosOf(id), label)}

\* The sum of the values of the holdings of one asset class.
ClassSum(class) ==
  SumSeq([i \in 1..Len(holdings) |->
            IF holdings[i].assetClass = class THEN holdings[i].valueUSD ELSE Zero])

\* The largest holding value.
LargestHolding ==
  CHOOSE m \in {holdings[i].valueUSD : i \in 1..Len(holdings)} :
    \A i \in 1..Len(holdings) : Ge(m, holdings[i].valueUSD)

\* The sum of (value_i / total)^2, as the sum of the squared values over total^2.
SumOfSquaredShares ==
  Div(SumSeq([i \in 1..Len(holdings) |-> Sq(holdings[i].valueUSD)]), Sq(total))

\* The concentration and the allocation block ran on holdings with total > 0.
SharesEvaluated ==
  /\ BlockRan("allocation")
  /\ Len(holdings) > 0
  /\ Gt(total, Zero)
  /\ total = SumSeq([i \in 1..Len(holdings) |-> holdings[i].valueUSD])

\* C24: for holdings with total > 0 equal to the sum of the values, Equity, Bond and
\* Cash % are always reported and Crypto % only for a nonzero crypto sum, each the
\* class sum over total; Top holding % is the largest holding over total; HHI is the
\* sum of the squared shares and Effective N is 1 / HHI.  500 in cash and 1500 in
\* stocks give Equity 75.0%, Cash 25.0%, Top holding 75.0%, HHI 0.6250 and
\* Effective N 1.6.
C24_SharesEqualReferenceFormulas ==
  /\ SharesEvaluated
     => /\ ValuesBuilt("allocation", "Equity %") = {formatPercent(Div(ClassSum("stocks"), total))}
        /\ ValuesBuilt("allocation", "Bond %") = {formatPercent(Div(ClassSum("bonds"), total))}
        /\ ValuesBuilt("allocation", "Cash %") = {formatPercent(Div(ClassSum("cash"), total))}
        /\ ValuesBuilt("allocation", "Crypto %") =
             IF StrictNe(ClassSum("crypto"), Zero)
             THEN {formatPercent(Div(ClassSum("crypto"), total))} ELSE {}
        /\ ValuesBuilt("concentration", "Top holding %") =
             {formatPercent(Div(LargestHolding, total))}
        /\ ValuesBuilt("concentration", "HHI (concentration)") =
             {ToFixed(SumOfSquaredShares, 4)}
        /\ ValuesBuilt("concentration", "Effective # of holdings") =
             {ToFixed(Div(One, SumOfSquaredShares), 1)}
  /\ SharesEvaluated /\ profile = ExampleProfile
     => /\ ValuesBuilt("allocation", "Equity %") = {"75.0%"}
        /\ ValuesBuilt("allocation", "Cash %") = {"25.0%"}
        /\ ValuesBuilt("concentration", "Top holding %") = {"75.0%"}
        /\ ValuesBuilt("concentration", "HHI (concentration)") = {"0.6250"}
        /\ ValuesBuilt("concentration", "Effective # of holdings") = {"1.6"}

\* Both blocks ran on the portfolio of 500 in cash and 1500 in stocks.
C24_Witness ==
  /\ SharesEvaluated
  /\ profile = ExampleProfile
  /\ ValuesBuilt("concentration", "HHI (concentration)") = {"0.6250"}

\* The list without its holding at position k.
WithoutHolding(hs, k) == SubSeq(hs, 1, k - 1) \o SubSeq(hs, k + 1, Len(hs))

ConcentrationFigures ==
  {"HHI (concentration)", "Effective # of holdings", "Top holding %", "Top 5 holding %",
   "Top 10 holding %"}

\* The positions of the zero-valued holdings of a list of two or more holdings.
ZeroHoldings ==
  {k \in 1..Len(holdings) : Len(holdings) >= 2 /\ StrictEq(holdings[k].valueUSD, Zero)}

\* C25: a holdings list with total > 0 and a holding of value 0 at any position
\* reports the same HHI, Effective number of holdings, Top holding %, Top 5 % and
\* Top 10 % as the list without that holding (same total).
C25_ZeroHoldingChangesNothing ==
  ConcentrationEvaluated
  => \A k \in ZeroHoldings :
       LET without == ConcRatios(WithoutHolding(holdings, k), total)
       IN \A label \in ConcentrationFigures :
            /\ RatiosLabelled(BuiltRatiosOf("concentration"), label) # {}
            /\ RatiosLabelled(BuiltRatiosOf("concentration"), label) =
                 RatiosLabelled({without[i] : i \in 1..Len(without)}, label)

\* The concentration block ran on twelve holdings of which the second is worth 0:
\* the top-5 and top-10 sums leave holdings out.
C25_Witness ==
  /\ ConcentrationEvaluated
  /\ Len(holdings) = 12
  /\ 2 \in ZeroHoldings
  /\ ValuesBuilt("concentration", "Top 5 holding %") = {"50.0%"}
  /\ ValuesBuilt("concentration", "Top 10 holding %") = {"91.7%"}

\* The metrics the engine never computes, each with the section it is built in.
PermanentlyUnavailable ==
  {[id |-> "return-quality", label |-> "TWR vs IRR"],
   [id |-> "concentration", label |-> "Sector / country concentration"],
   [id |-> "concentration", label |-> "Avg pairwise correlation"],
   [id |-> "practical", label |-> "Turnover"],
   [id |-> "practical", label |-> "Fee drag"],
   [id |-> "practical", label |-> "Tax drag (est.)"]}

\* C26: TWR vs IRR, Sector / country concentration, Avg pairwise correlation,
\* Turnover, Fee drag and Tax drag (est.) are built with the sentinel value on every
\* input, and appear in no returned section.
C26_UnavailableMetricsNeverReturned ==
  /\ \A m \in PermanentlyUnavailable :
       BlockRan(m.id)
       => /\ RatiosLabelled(BuiltRatiosOf(m.id), m.label) # {}
          /\ \A r \in RatiosLabelled(BuiltRatiosOf(m.id), m.label) : r.value = Sentinel
  /\ \A r \in ReturnedRatios : r.label \notin {m.label : m \in PermanentlyUnavailable}
  /\ \A i \in 1..Len(returned) :
       \A j \in 1..Len(returned[i].result) :
         \A n \in 1..Len(returned[i].result[j].ratios) :
           returned[i].result[j].ratios[n].label \notin {m.label : m \in PermanentlyUnavailable}

\* A call returned the three sections the unavailable metrics are built in, each
\* with its computed ratios only.
C26_Witness ==
  /\ Returned
  /\ {"return-quality", "concentration", "practical"} \subseteq ReturnedIds
  /\ \A m \in PermanentlyUnavailable : RatiosLabelled(BuiltRatiosOf(m.id), m.label) # {}

\* C27: no step of a call changes its inputs: profile (the holdings with their
\* order, and the totals) and priceHistory (data and sp500) stay as they were passed;
\* the sorts order copies.
C27_InputsUnchanged ==
  [][profile' = profile /\ priceHistory' = priceHistory]_vars

\* A call returned on holdings that are not in descending order of value and on a
\* series whose daily returns are not in ascending order: both sorts had to reorder.
C27_Witness ==
  /\ Returned
  /\ ConcentrationEvaluated
  /\ holdings # SortByValueDesc(holdings)
  /\ "tail-risk" \in ReturnedIds
  /\ DailyReturns(ValuesOf(data)) # SortAsc(DailyReturns(ValuesOf(data)))

\* The value of h has a pair whose value text is a number greater than 0.
SomePairRemains ==
  \E pair \in {Split(HOf(params).chars, ",")[i]
                : i \in 1..Len(Split(HOf(params).chars, ","))} :
    Gt(NumberOf(Slice(pair, LastIndexOf(pair, ":") + 1, Len(pair))), Zero)

\* DashboardPage ran to its end on the request.
PageDone == pc \in {"awaiting", "redirected", "page-threw"}

\* C28: for every query string h, every holdings list posted to the backend is
\* non-empty and holds only pairs with a number valueUSD > 0; when h is missing or
\* no pair remains, the page redirects to /select and posts nothing.
C28_PostsOnlyPositiveHoldings ==
  /\ \A i \in 1..Len(posted) :
       /\ Len(posted[i].body.holdings) > 0
       /\ \A j \in 1..Len(posted[i].body.holdings) :
            /\ posted[i].body.holdings[j].valueUSD.k = "fin"
            /\ Gt(posted[i].body.holdings[j].valueUSD, Zero)
  /\ PageDone /\ (NoH(HOf(params)) \/ ~SomePairRemains)
     => pc = "redirected" /\ posted = <<>>

\* The tail-risk block ran on a series of two or more positive prices.
TailEvaluated == BlockRan("tail-risk") /\ HasReturnSeries(data) /\ PositivePrices

\* C29: for a series of two or more positive prices, VaR (99%) <= VaR (95%) and
\* CVaR <= VaR (95%), and the indices floor(n * 0.01) and floor(n * 0.05) lie inside
\* the n sorted returns, so that the figures reported are elements of the series and
\* the fallback 0 is never taken.
C29_TailFiguresOrdered ==
  TailEvaluated
  => LET sorted == SortAsc(DailyReturns(ValuesOf(data)))
         n == Len(sorted)
         var95Idx == (n * 5) \div 100
         var99Idx == n \div 100
     IN /\ var95Idx \in 0..(n - 1) /\ var99Idx \in 0..(n - 1)
        /\ \A i, j \in 1..n : i <= j => Le(sorted[i], sorted[j])
        /\ Le(VarAt(sorted, 1), VarAt(sorted, 5))
        /\ Le(CVar(sorted), VarAt(sorted, 5))
        /\ ValuesBuilt("tail-risk", "VaR (95%)") = {formatPercent(sorted[var95Idx + 1])}
        /\ ValuesBuilt("tail-risk", "VaR (99%)") = {formatPercent(sorted[var99Idx + 1])}
        /\ ValuesBuilt("tail-risk", "CVaR / Expected Shortfall") = {formatPercent(CVar(sorted))}

\* The tail-risk block ran on 21 returns of which the lowest are -1/2 and -1/5: the
\* three figures differ.
C29_Witness ==
  /\ TailEvaluated
  /\ Len(data) = 22
  /\ ValuesBuilt("tail-risk", "VaR (99%)") = {"-50.0%"}
  /\ ValuesBuilt("tail-risk", "VaR (95%)") = {"-20.0%"}
  /\ ValuesBuilt("tail-risk", "CVaR / Expected Shortfall") = {"-35.0%"}

\* No two sections of the list share an id, and no two ratios of a section share a
\* label.
KeysDistinct(list) ==
  /\ \A i, j \in 1..Len(list) : list[i].id = list[j].id => i = j
  /\ \A i \in 1..Len(list) :
       \A a, b \in 1..Len(list[i].ratios) :
         list[i].ratios[a].label = list[i].ratios[b].label => a = b

\* C30: in every returned list the section ids are pairwise distinct and the ratio
\* labels of each section are pairwise distinct, so the keys of the Dashboard's
\* sections (section.id) and rows (label) never collide.
C30_SectionAndRowKeysDistinct ==
  /\ KeysDistinct(result)
  /\ \A i \in 1..Len(returned) : KeysDistinct(returned[i].result)

\* A call returned seven sections or more, one of them with five rows or more.
C30_Witness ==
  /\ Returned
  /\ Len(result) >= 7
  /\ \E i \in 1..Len(result) : Len(result[i].ratios) >= 5
  /\ Len(returned) = 1

====
